---- MODULE Spec2Model ----
(***************************************************************************)
(* video-analyzer. The Asset Ledger: VideoDatabase in                      *)
(* src/video_analysis/video_db.py, a JSON document {"videos": [...]} that  *)
(* every operation loads in full, changes in memory and writes back, with  *)
(* the upload command of src/bin/manage_videos.py. Then the pipeline       *)
(* around it: the response parser of src/video_analysis/core.py and the    *)
(* VideoExtractor of src/video_analysis/extractor.py, as functions of      *)
(* their inputs, the prompt comparison of src/bin/compare_prompts.py and   *)
(* two processes on one store file. Time is counted in whole hours.        *)
(***************************************************************************)
EXTENDS Integers, Sequences, FiniteSets, TLC

VARIABLES
    store,      \* the "videos" list of the persisted document
    now,        \* the wall clock, datetime.now(), in hours
    edits,      \* number of update_video / mark_as_expired calls so far (history)
    issued,     \* the ids add_video has returned so far (history)
    op,         \* the call that ran last
    arg,        \* its arguments
    ret,        \* its return value
    old,        \* the "videos" list before it ran (history)
    saved,      \* whether it called _save_db
    afterAdd,   \* whether the call before it was an add_video too (history)
    disk,       \* the text of the store file, as the tokens written to it
    db,         \* the document a call holds in memory
    pc,         \* where the calling process is
    files,      \* what client.files.get answers for each resource name
    sent        \* the generate_content requests sent so far (history)

vars == <<store, now, edits, issued, op, arg, ret, old, saved, afterAdd,
          disk, db, pc, files, sent>>

----------------------------------------------------------------------------
(* Bounds of the model *)

MaxLen == 2         \* records the store holds at most
MaxEdits == 1       \* update_video / mark_as_expired calls in one behaviour

(* Program constant *)

EXPIRY_HOURS == 48

----------------------------------------------------------------------------
(* Values *)

\* Optional[X]: None, or a value
None == << >>
Some(x) == <<x>>

Range(s) == {s[i] : i \in 1..Len(s)}

\* an empty dict
EmptyDict == [k \in {} |-> ""]

\* pathlib, for the paths of the model: Path(p).absolute() and Path(p).stem;
\* "clips/b.mp4" is relative to the working directory /cwd
Absolute(p) == IF p = "clips/b.mp4" THEN "/cwd/clips/b.mp4" ELSE p
Stem(p) == IF p = "/v/a.mp4" THEN "a" ELSE "b"

\* the remote resource names of the model
FileNames == {"files/x1", "files/x2"}

\* datetime.isoformat() and datetime.fromisoformat() on whole hours: the
\* text carries the date and the time of day
isoformat(t) == [date |-> t \div 24, hour |-> t % 24]
fromisoformat(s) == s.date * 24 + s.hour

----------------------------------------------------------------------------
(* VideoDatabase. Each operation is a function of the loaded document (and *)
(* of the clock): videos is the "videos" list of the document on disk when *)
(* it returns, saved whether _save_db was called, ret the return value.    *)

\* add_video: the entry it builds
video_entry(videos, a, t) ==
    [ id           |-> Len(videos) + 1,
      display_name |-> IF a.display_name = "" THEN Stem(a.local_path) ELSE a.display_name,
      local_path   |-> Absolute(a.local_path),
      file_id      |-> a.file_id,
      file_name    |-> a.file_name,
      description  |-> a.description,
      uploaded_at  |-> isoformat(t),
      metadata     |-> a.metadata ]

\* add_video putting the new entry first instead of last
add_video_Prepend(videos, a, t) ==
    [ videos |-> <<video_entry(videos, a, t)>> \o videos,
      saved  |-> TRUE,
      ret    |-> video_entry(videos, a, t) ]

add_video(videos, a, t) ==
    [ videos |-> Append(videos, video_entry(videos, a, t)),
      saved  |-> TRUE,
      ret    |-> video_entry(videos, a, t) ]

\* the scan "for video in db['videos']: if video[key] == value": the
\* index of the first match, 0 when there is none
FirstIndex(videos, key, value) ==
    LET hits == {i \in 1..Len(videos) : videos[i][key] = value}
    IN  IF hits = {} THEN 0 ELSE CHOOSE i \in hits : \A j \in hits : i <= j

\* a get_video that returns the last record with the id instead of the first
get_video_Last(videos, video_id) ==
    LET hits == {i \in 1..Len(videos) : videos[i].id = video_id}
    IN  IF hits = {} THEN None
        ELSE Some(videos[CHOOSE i \in hits : \A j \in hits : i >= j])

get_video(videos, video_id) ==
    LET i == FirstIndex(videos, "id", video_id)
    IN  IF i = 0 THEN None ELSE Some(videos[i])

get_video_by_name(videos, display_name) ==
    LET i == FirstIndex(videos, "display_name", display_name)
    IN  IF i = 0 THEN None ELSE Some(videos[i])

list_videos(videos) == videos

\* delete_video removing the first match only
delete_video_FirstOnly(videos, video_id) ==
    LET i == FirstIndex(videos, "id", video_id)
    IN  IF i # 0
        THEN [videos |-> SubSeq(videos, 1, i - 1) \o SubSeq(videos, i + 1, Len(videos)),
              saved |-> TRUE, ret |-> TRUE]
        ELSE [videos |-> videos, saved |-> FALSE, ret |-> FALSE]

delete_video(videos, video_id) ==
    LET rest == SelectSeq(videos, LAMBDA v : v.id # video_id)
    IN  IF Len(rest) < Len(videos)
        THEN [videos |-> rest, saved |-> TRUE, ret |-> TRUE]
        ELSE [videos |-> videos, saved |-> FALSE, ret |-> FALSE]

\* a dict replaced instead of updated
DictUpdate_Replace(d, e) == e

\* dict.update
DictUpdate(d, e) ==
    [k \in DOMAIN d \cup DOMAIN e |-> IF k \in DOMAIN e THEN e[k] ELSE d[k]]

\* update_video: the entry after the kwargs are applied
updated_entry(video, kwargs) ==
    [video EXCEPT
        !.display_name = IF "display_name" \in DOMAIN kwargs
                         THEN kwargs.display_name ELSE @,
        !.description  = IF "description" \in DOMAIN kwargs
                         THEN kwargs.description ELSE @,
        !.metadata     = IF "metadata" \in DOMAIN kwargs
                         THEN DictUpdate(@, kwargs.metadata) ELSE @]

\* update_video saving after the loop, whether or not the id was found
update_video_AlwaysSave(videos, video_id, kwargs) ==
    LET i == FirstIndex(videos, "id", video_id)
    IN  IF i # 0
        THEN [videos |-> [videos EXCEPT ![i] = updated_entry(@, kwargs)],
              saved |-> TRUE, ret |-> TRUE]
        ELSE [videos |-> videos, saved |-> TRUE, ret |-> FALSE]

update_video(videos, video_id, kwargs) ==
    LET i == FirstIndex(videos, "id", video_id)
    IN  IF i # 0
        THEN [videos |-> [videos EXCEPT ![i] = updated_entry(@, kwargs)],
              saved |-> TRUE, ret |-> TRUE]
        ELSE [videos |-> videos, saved |-> FALSE, ret |-> FALSE]

\* mark_as_expired stamping uploaded_at as well
marked_entry_Restamp(video, t) ==
    [video EXCEPT
        !.uploaded_at = isoformat(t),
        !.metadata = DictUpdate(@, [expired |-> TRUE, expired_at |-> isoformat(t)])]

\* mark_as_expired: the entry after the two metadata keys are set
marked_entry(video, t) ==
    [video EXCEPT !.metadata =
        DictUpdate(@, [expired |-> TRUE, expired_at |-> isoformat(t)])]

mark_as_expired(videos, video_id, t) ==
    LET i == FirstIndex(videos, "id", video_id)
    IN  IF i # 0
        THEN [videos |-> [videos EXCEPT ![i] = marked_entry(@, t)],
              saved |-> TRUE, ret |-> TRUE]
        ELSE [videos |-> videos, saved |-> FALSE, ret |-> FALSE]

get_expiry_time(video) == fromisoformat(video.uploaded_at) + EXPIRY_HOURS

\* an is_expired that is true from the hour of the expiry on
is_expired_AtExpiry(video, t) == t >= get_expiry_time(video)

is_expired(video, t) == t > get_expiry_time(video)

get_time_until_expiry(video, t) == get_expiry_time(video) - t

\* what client.files.get(name) can do: answer a file whose state has one of
\* these names, or raise (the resource is not found, the service is not
\* reachable)
States == {"ACTIVE", "PROCESSING", "FAILED"}
Raises == {"NOT_FOUND", "UNAVAILABLE"}

\* a check_file_exists that takes every answered query for an existing file
check_file_exists_AnyState(video, client) ==
    client[video.file_name] \notin Raises

\* check_file_exists: client maps a resource name to what files.get(name)
\* does, a state name of States or an exception of Raises
check_file_exists(video, client) ==
    IF client[video.file_name] \in Raises
    THEN FALSE
    ELSE client[video.file_name] = "ACTIVE"

\* cleanup_expired: the loop over the loaded videos, from index i on, with
\* the lists built so far; client is None or Some(handle). The clock reads
\* t at every is_expired of one call: a call takes less than an hour.
RECURSIVE cleanup_loop(_, _, _, _, _, _)
cleanup_loop(videos, i, to_delete, kept, client, t) ==
    IF i > Len(videos) THEN [deleted |-> to_delete, kept |-> kept]
    ELSE LET video == videos[i]
             still == /\ is_expired(video, t)
                      /\ client # None
                      /\ check_file_exists(video, client[1])
             should_delete == is_expired(video, t) /\ ~still
             kept1 == IF still THEN Append(kept, video.id) ELSE kept
         IN  IF should_delete
             THEN cleanup_loop(videos, i + 1, Append(to_delete, video.id), kept1, client, t)
             ELSE IF video.id \notin Range(kept1)
             THEN cleanup_loop(videos, i + 1, to_delete, Append(kept1, video.id), client, t)
             ELSE cleanup_loop(videos, i + 1, to_delete, kept1, client, t)

cleanup_expired(videos, client, t) ==
    LET result == cleanup_loop(videos, 1, << >>, << >>, client, t)
    IN  IF result.deleted # << >>
        THEN [videos |-> SelectSeq(videos, LAMBDA v : v.id \notin Range(result.deleted)),
              saved |-> TRUE, ret |-> result]
        ELSE [videos |-> videos, saved |-> FALSE, ret |-> result]

----------------------------------------------------------------------------
(* Inputs *)

\* add_video's arguments: without and with the optional ones. An omitted
\* display_name or description is "" (None and "" are both falsy), an
\* omitted metadata is the empty dict.
AddArgs ==
    { [local_path |-> "/v/a.mp4", file_id |-> "x1", file_name |-> "files/x1",
       display_name |-> "", description |-> "", metadata |-> EmptyDict],
      [local_path |-> "clips/b.mp4", file_id |-> "x2", file_name |-> "files/x2",
       display_name |-> "n1", description |-> "d1", metadata |-> [k1 |-> "v1"]] }

\* the ids a call is made with: those in the store, and one that is not
AbsentId == MaxLen + 1
Ids(videos) == {videos[i].id : i \in 1..Len(videos)} \cup {AbsentId}

\* update_video's keyword arguments
Kwargs ==
    { [display_name |-> "n2"],
      [description |-> "d2", metadata |-> [k1 |-> "v2"]],
      [metadata |-> [k2 |-> "v2"]] }

\* the collaborator handles of the model, by what they answer for each
\* resource name
Clients ==
    { [n \in FileNames |-> "ACTIVE"],
      [n \in FileNames |-> IF n = "files/x1" THEN "ACTIVE" ELSE "NOT_FOUND"],
      [n \in FileNames |-> IF n = "files/x1" THEN "FAILED" ELSE "ACTIVE"] }

\* cleanup_expired's argument: no handle, or one
ClientArgs == {None} \cup {Some(c) : c \in Clients}

\* the instants at which calls are made: the start, and the last hour
\* before and the first hour after the expiry of what was uploaded then
Instants == {0, EXPIRY_HOURS, EXPIRY_HOURS + 1}

----------------------------------------------------------------------------
(* The store file *)

\* json.dump(data, f, indent=2): the text of {"videos": [...]}, written to
\* f piece by piece: the opening of the document, each record, the closing
dump(videos) ==
    << <<"{">> >> \o [i \in 1..Len(videos) |-> <<"record", videos[i]>>] \o << <<"}">> >>

\* json.load(f): the "videos" list of a text that is a whole document, None
\* for a text that is not (json.load raises JSONDecodeError)
load(text) ==
    IF /\ Len(text) >= 2
       /\ text[1][1] = "{"
       /\ text[Len(text)][1] = "}"
       /\ \A i \in 2..(Len(text) - 1) : text[i][1] = "record"
    THEN Some([i \in 1..(Len(text) - 2) |-> text[i + 1][2]])
    ELSE None

----------------------------------------------------------------------------
(* State machine: one ledger on its store file, called by one process *)

\* VideoDatabase(db_path) on a path that does not exist yet
Init ==
    /\ store = << >>
    /\ now = 0
    /\ edits = 0
    /\ issued = {}
    /\ op = "init"
    /\ arg = None
    /\ ret = None
    /\ old = << >>
    /\ saved = TRUE
    /\ afterAdd = FALSE
    /\ disk = dump(<< >>)
    /\ db = << >>
    /\ pc = "idle"
    /\ files = [n \in FileNames |-> "ACTIVE"]
    /\ sent = << >>

\* the effect r of a call on the store file, and its record in op, arg, ret;
\* the call is one step, the steps of its _save_db are not followed
Call(name, a, r) ==
    /\ store' = r.videos
    /\ saved' = r.saved
    /\ ret' = r.ret
    /\ op' = name
    /\ arg' = a
    /\ old' = store
    /\ UNCHANGED <<disk, db, pc, files, sent>>

AddVideo ==
    /\ Len(store) < MaxLen
    /\ \E a \in AddArgs :
         /\ Call("add", a, add_video(store, a, now))
         /\ issued' = issued \cup {add_video(store, a, now).ret.id}
    /\ afterAdd' = (op = "add")
    /\ UNCHANGED <<now, edits>>

GetVideo ==
    /\ \E video_id \in Ids(store) :
         Call("get", video_id,
              [videos |-> store, saved |-> FALSE, ret |-> get_video(store, video_id)])
    /\ afterAdd' = FALSE
    /\ UNCHANGED <<now, edits, issued>>

DeleteVideo ==
    /\ \E video_id \in Ids(store) :
         Call("delete", video_id, delete_video(store, video_id))
    /\ afterAdd' = FALSE
    /\ UNCHANGED <<now, edits, issued>>

UpdateVideo ==
    /\ edits < MaxEdits
    /\ \E video_id \in Ids(store), kwargs \in Kwargs :
         Call("update", [video_id |-> video_id, kwargs |-> kwargs],
              update_video(store, video_id, kwargs))
    /\ edits' = edits + 1
    /\ afterAdd' = FALSE
    /\ UNCHANGED <<now, issued>>

MarkAsExpired ==
    /\ edits < MaxEdits
    /\ \E video_id \in Ids(store) :
         Call("mark", video_id, mark_as_expired(store, video_id, now))
    /\ edits' = edits + 1
    /\ afterAdd' = FALSE
    /\ UNCHANGED <<now, issued>>

CleanupExpired ==
    /\ \E client \in ClientArgs :
         Call("cleanup", client, cleanup_expired(store, client, now))
    /\ afterAdd' = FALSE
    /\ UNCHANGED <<now, edits, issued>>

\* time passes between two calls
Tick ==
    /\ \E t \in Instants :
         /\ t > now
         /\ now' = t
    /\ Call("tick", None, [videos |-> store, saved |-> FALSE, ret |-> None])
    /\ afterAdd' = FALSE
    /\ UNCHANGED <<edits, issued>>

Next ==
    \/ AddVideo
    \/ GetVideo
    \/ DeleteVideo
    \/ UpdateVideo
    \/ MarkAsExpired
    \/ CleanupExpired
    \/ Tick

Spec == Init /\ [][Next]_vars

----------------------------------------------------------------------------
(* Vocabulary of the properties *)

\* s is t with some elements left out, the others in their order
IsSubseq(s, t) ==
    \E f \in [1..Len(s) -> 1..Len(t)] :
        /\ \A i \in 1..Len(s) : s[i] = t[f[i]]
        /\ \A i, j \in 1..Len(s) : i < j => f[i] < f[j]

IdsOf(videos) == {videos[i].id : i \in 1..Len(videos)}

\* the fields of a record that are set at creation
Frozen(video) ==
    [ id |-> video.id, local_path |-> video.local_path, file_id |-> video.file_id,
      file_name |-> video.file_name, uploaded_at |-> video.uploaded_at ]

FrozenSeq(videos) == [i \in 1..Len(videos) |-> Frozen(videos[i])]

----------------------------------------------------------------------------
(* C1..C10: the ledger's operations *)

\* C1: in every reachable ledger state no two records of the store have
\* the same id.
C1_UniqueIds ==
    \A i, j \in 1..Len(store) : i # j => store[i].id # store[j].id

\* C2: an id that add has returned is never returned by a later add, also
\* after its record was removed.
C2_IdsNeverReissued ==
    [][op' = "add" => ret'.id \notin issued]_vars

\* C3: get(returned id) made directly after add(local_path, file_id,
\* file_name) returns a record with the local_path (in the absolute form
\* the ledger stores), file_id and file_name passed to that add.
C3_AddThenGet ==
    op = "add" =>
        LET got == get_video(store, ret.id)
        IN  /\ got # None
            /\ got[1].local_path = Absolute(arg.local_path)
            /\ got[1].file_id = arg.file_id
            /\ got[1].file_name = arg.file_name

\* C4: an add appends exactly one record, the one it returns, at the end
\* of the store and leaves the existing records as they are; of two adds
\* made one directly after the other the second returns the greater id
\* (the first one's id is that of the record it appended, the last of old).
C4_SuccessiveAdds ==
    op = "add" =>
        /\ Len(store) = Len(old) + 1
        /\ SubSeq(store, 1, Len(old)) = old
        /\ store[Len(store)] = ret
        /\ afterAdd => ret.id > old[Len(old)].id

C4_Witness ==
    /\ op = "add"
    /\ afterAdd
    /\ Len(store) = 2

C6_AbsentIdNoWrite ==
    /\ (op = "delete" /\ arg \notin IdsOf(old)) =>
           (ret = FALSE /\ store = old /\ ~saved)
    /\ (op = "update" /\ arg.video_id \notin IdsOf(old)) =>
           (ret = FALSE /\ store = old /\ ~saved)

C6_Witness ==
    /\ op = "update"
    /\ ret = FALSE
    /\ Len(old) = 2

\* C7: update(id, ...) of an id in the store returns true and changes one
\* record, which has that id: display_name and description are replaced
\* when given, the new metadata has the supplied keys with the supplied
\* values and the other old keys with their old values, the other fields
\* and every other record stay as they were.
C7_UpdatePresent ==
    (op = "update" /\ arg.video_id \in IdsOf(old)) =>
        /\ ret = TRUE
        /\ Len(store) = Len(old)
        /\ \E i \in 1..Len(old) :
             LET kw == arg.kwargs
                 supplied == IF "metadata" \in DOMAIN kw THEN kw.metadata ELSE EmptyDict
                 was == old[i]
                 is == store[i]
             IN /\ was.id = arg.video_id
                /\ \A j \in 1..Len(old) : j # i => store[j] = old[j]
                /\ Frozen(is) = Frozen(was)
                /\ is.display_name = IF "display_name" \in DOMAIN kw
                                     THEN kw.display_name ELSE was.display_name
                /\ is.description = IF "description" \in DOMAIN kw
                                    THEN kw.description ELSE was.description
                /\ DOMAIN is.metadata = DOMAIN was.metadata \cup DOMAIN supplied
                /\ \A k \in DOMAIN supplied : is.metadata[k] = supplied[k]
                /\ \A k \in DOMAIN was.metadata \ DOMAIN supplied :
                       is.metadata[k] = was.metadata[k]

C7_Witness ==
    /\ op = "update"
    /\ ret = TRUE
    /\ Len(store) = 2
    /\ \E i \in 1..Len(store) :
         /\ DOMAIN store[i].metadata = {"k1", "k2"}
         /\ store[i].metadata # old[i].metadata

\* C8: the id, local_path, file_id, file_name and uploaded_at of a record
\* never change: update and mark_as_expired leave them as they were in
\* every record, delete and cleanup_expired in every record that survives,
\* add in every record that was there.
C8_FrozenFields ==
    /\ op \in {"update", "mark"} => FrozenSeq(store) = FrozenSeq(old)
    /\ op \in {"delete", "cleanup"} => IsSubseq(FrozenSeq(store), FrozenSeq(old))
    /\ op = "add" => SubSeq(FrozenSeq(store), 1, Len(old)) = FrozenSeq(old)

C8_Witness ==
    /\ op = "mark"
    /\ ret = TRUE
    /\ \E i \in 1..Len(store) :
         /\ "expired_at" \in DOMAIN store[i].metadata
         /\ store[i].metadata.expired_at # store[i].uploaded_at

\* C9: cleanup_expired without a collaborator leaves exactly the records
\* that were not expired, in their order.
C9_CleanupNoClient ==
    (op = "cleanup" /\ arg = None) =>
        store = SelectSeq(old, LAMBDA v : ~is_expired(v, now))

\* C10: cleanup_expired with a collaborator keeps every expired record
\* whose remote resource still exists: its id is in kept, not in deleted,
\* and the record is still in the store.
C10_CleanupKeepsExisting ==
    (op = "cleanup" /\ arg # None) =>
        \A i \in 1..Len(old) :
            (is_expired(old[i], now) /\ check_file_exists(old[i], arg[1])) =>
                /\ old[i].id \in Range(ret.kept)
                /\ old[i].id \notin Range(ret.deleted)
                /\ old[i] \in Range(store)

----------------------------------------------------------------------------
(* check_file_exists, called on the records of a ledger with every handle  *)

\* every collaborator handle over the resource names of the model
Handles == [FileNames -> States \cup Raises]

\* the ledger variables a call outside VideoDatabase's mutators leaves alone
LedgerIdle == UNCHANGED <<now, edits, issued>> /\ afterAdd' = FALSE

CheckFileExists ==
    /\ \E i \in 1..Len(store), client \in Handles :
         Call("exists", [video |-> store[i], client |-> client],
              [videos |-> store, saved |-> FALSE,
               ret |-> check_file_exists(store[i], client)])
    /\ LedgerIdle

NextExists ==
    \/ AddVideo
    \/ CheckFileExists

SpecExists == Init /\ [][NextExists]_vars

\* what the query of the last check_file_exists call did
C11_Reply == arg.client[arg.video.file_name]

\* C11: check_file_exists returns a Boolean and never an exception; it
\* returns true only when the query answers and the state is ACTIVE, false
\* when the query raises (not found or anything else) or answers another
\* state; and it leaves the store as it was, without writing it.
C11_CheckFileExists ==
    op = "exists" =>
        /\ ret \in BOOLEAN
        /\ ret = TRUE => (C11_Reply \notin Raises /\ C11_Reply = "ACTIVE")
        /\ (C11_Reply \in Raises \/ C11_Reply # "ACTIVE") => ret = FALSE
        /\ store = old
        /\ ~saved

\* a query that answered a state other than ACTIVE, on a ledger of two
C11_Witness ==
    /\ op = "exists"
    /\ C11_Reply = "PROCESSING"
    /\ ret = FALSE
    /\ Len(store) = 2

----------------------------------------------------------------------------
(* A mutating call, step by step: _load_db, the change in memory, then     *)
(* _save_db, which opens the store file for writing (that empties it),     *)
(* writes the text and closes the file. The process can die at any step.   *)

\* _load_db and the change in memory: r is what the operator of the call
\* makes of the loaded document; a call that saves goes on to _save_db
Begin(name, a, r) ==
    /\ pc = "idle"
    /\ op' = name
    /\ arg' = a
    /\ ret' = r.ret
    /\ old' = store
    /\ saved' = r.saved
    /\ db' = r.videos
    /\ pc' = IF r.saved THEN "open" ELSE "idle"
    /\ afterAdd' = FALSE
    /\ UNCHANGED <<store, disk, now, files, sent>>

BeginAdd ==
    /\ Len(store) < MaxLen
    /\ \E a \in AddArgs :
         /\ Begin("add", a, add_video(store, a, now))
         /\ issued' = issued \cup {add_video(store, a, now).ret.id}
    /\ UNCHANGED edits

BeginDelete ==
    /\ \E video_id \in Ids(store) :
         Begin("delete", video_id, delete_video(store, video_id))
    /\ UNCHANGED <<edits, issued>>

BeginUpdate ==
    /\ edits < MaxEdits
    /\ \E video_id \in Ids(store), kwargs \in Kwargs :
         Begin("update", [video_id |-> video_id, kwargs |-> kwargs],
               update_video(store, video_id, kwargs))
    /\ edits' = edits + 1
    /\ UNCHANGED issued

BeginCleanup ==
    /\ \E client \in ClientArgs :
         Begin("cleanup", client, cleanup_expired(store, client, now))
    /\ UNCHANGED <<edits, issued>>

\* time passes between two calls
IdleTick ==
    /\ pc = "idle"
    /\ Tick

\* the ledger variables the steps of _save_db leave alone
SaveIdle ==
    UNCHANGED <<now, edits, issued, op, arg, ret, old, saved, afterAdd, db, files, sent>>

\* open(self.db_path, "w")
Open ==
    /\ pc = "open"
    /\ disk' = << >>
    /\ pc' = "write"
    /\ UNCHANGED store
    /\ SaveIdle

\* json.dump: the next piece of the text reaches the file
Write ==
    /\ pc = "write"
    /\ Len(disk) < Len(dump(db))
    /\ disk' = Append(disk, dump(db)[Len(disk) + 1])
    /\ UNCHANGED <<pc, store>>
    /\ SaveIdle

\* the end of the with block, after the whole text
Close ==
    /\ pc = "write"
    /\ disk = dump(db)
    /\ store' = db
    /\ pc' = "idle"
    /\ UNCHANGED disk
    /\ SaveIdle

\* the process dies inside _save_db; the file stays as it is
Crash ==
    /\ pc \in {"open", "write"}
    /\ pc' = "crashed"
    /\ UNCHANGED <<store, disk>>
    /\ SaveIdle

\* a new process on the same path: its calls load what the file holds, and
\* all raise JSONDecodeError when that is not a whole document
Restart ==
    /\ pc = "crashed"
    /\ pc' = IF load(disk) = None THEN "unreadable" ELSE "idle"
    /\ store' = IF load(disk) = None THEN store ELSE load(disk)[1]
    /\ UNCHANGED disk
    /\ SaveIdle

NextCrash ==
    \/ BeginAdd
    \/ BeginDelete
    \/ BeginUpdate
    \/ BeginCleanup
    \/ IdleTick
    \/ Open
    \/ Write
    \/ Close
    \/ Crash
    \/ Restart

SpecCrash == Init /\ [][NextCrash]_vars

\* C12: when the process has died during a mutating call, the store file
\* holds the whole document from before the call or the whole new document.
C12_CrashKeepsDocument ==
    pc = "crashed" => disk \in {dump(old), dump(db)}

----------------------------------------------------------------------------
(* The upload command of bin/manage_videos.py                              *)

MaxPolls == 1       \* answers of PROCESSING before the upload settles

\* video_file.name.split("/")[-1]
LastPart(name) == IF name = "files/x1" THEN "x1" ELSE "x2"

\* the state name the loop  while video_file.state.name == "PROCESSING"
\* ends with, or the exception a query raised: replies[1] is what
\* client.files.upload does, the later ones what client.files.get does
RECURSIVE poll(_, _)
poll(replies, i) ==
    IF replies[i] = "PROCESSING" /\ i < Len(replies)
    THEN poll(replies, i + 1)
    ELSE replies[i]

\* db.add_video(...) as upload_video calls it
upload_entry(videos, args, remote, t) ==
    LET r == add_video(videos,
                       [local_path |-> args.video_path,
                        file_id |-> LastPart(remote.name),
                        file_name |-> remote.name,
                        display_name |-> args.name,
                        description |-> args.description,
                        metadata |-> [uri |-> remote.uri, mime_type |-> "video/mp4"]],
                       t)
    IN  [videos |-> r.videos, saved |-> r.saved,
         ret |-> [status |-> "added", entry |-> Some(r.ret)]]

\* how the command ends without a record
upload_end(videos, status) ==
    [videos |-> videos, saved |-> FALSE, ret |-> [status |-> status, entry |-> None]]

\* an upload_video that does not look at the state the processing ended in
upload_video_AnyState(videos, args, exists, remote, t) ==
    IF ~exists THEN upload_end(videos, "exit 1")
    ELSE IF /\ get_video_by_name(videos, IF args.name # "" THEN args.name
                                         ELSE Stem(args.video_path)) # None
            /\ ~args.force
    THEN upload_end(videos, "exit 1")
    ELSE IF poll(remote.replies, 1) \in Raises THEN upload_end(videos, "raised")
    ELSE upload_entry(videos, args, remote, t)

\* upload_video(args, client, db): exists is os.path.exists(args.video_path),
\* remote is the file the collaborator makes of the upload; an omitted
\* --name or --description is ""
upload_video(videos, args, exists, remote, t) ==
    IF ~exists THEN upload_end(videos, "exit 1")
    ELSE IF /\ get_video_by_name(videos, IF args.name # "" THEN args.name
                                         ELSE Stem(args.video_path)) # None
            /\ ~args.force
    THEN upload_end(videos, "exit 1")
    ELSE IF poll(remote.replies, 1) \in Raises THEN upload_end(videos, "raised")
    ELSE IF poll(remote.replies, 1) # "ACTIVE" THEN upload_end(videos, "exit 1")
    ELSE upload_entry(videos, args, remote, t)

\* the command lines of the model
UploadArgs ==
    [video_path : {"/v/a.mp4", "clips/b.mp4"}, name : {"", "a"},
     description : {""}, force : BOOLEAN]

\* what the collaborator can do with an upload: some answers of PROCESSING,
\* then a state the processing ends in or an exception
Processing(k) == [i \in 1..k |-> "PROCESSING"]
Remotes ==
    [name : FileNames, uri : {"https://files/u"},
     replies : {Processing(k) \o <<last>> :
                    k \in 0..MaxPolls, last \in {"ACTIVE", "FAILED"} \cup Raises}]

\* the ledgers of up to n records, as add_video builds them
RECURSIVE Ledgers(_)
Ledgers(n) ==
    IF n = 0 THEN {<< >>}
    ELSE Ledgers(n - 1) \cup
         {add_video(videos, a, 0).videos : videos \in Ledgers(n - 1), a \in AddArgs}

\* the command is run once, on a ledger that holds some records
InitUpload ==
    /\ store \in Ledgers(MaxLen)
    /\ now \in Instants
    /\ edits = 0
    /\ issued = IdsOf(store)
    /\ op = "init"
    /\ arg = None
    /\ ret = None
    /\ old = store
    /\ saved = FALSE
    /\ afterAdd = FALSE
    /\ disk = dump(store)
    /\ db = store
    /\ pc = "idle"
    /\ files = [n \in FileNames |-> "ACTIVE"]
    /\ sent = << >>

UploadVideo ==
    /\ op = "init"
    /\ \E args \in UploadArgs, exists \in BOOLEAN, remote \in Remotes :
         LET r == upload_video(store, args, exists, remote, now)
         IN  /\ Call("upload", [args |-> args, exists |-> exists, remote |-> remote], r)
             /\ issued' = IF r.saved THEN issued \cup {r.ret.entry[1].id} ELSE issued
    /\ afterAdd' = FALSE
    /\ UNCHANGED <<now, edits>>

NextUpload == UploadVideo

SpecUpload == InitUpload /\ [][NextUpload]_vars

\* the name the last upload command looked up in the ledger
C13_Name == IF arg.args.name # "" THEN arg.args.name ELSE Stem(arg.args.video_path)

\* whether the last upload command was abandoned: the local file is missing,
\* the name is in the ledger and --force is not given, or the processing
\* ended in a state other than ACTIVE
C13_Abandoned ==
    \/ ~arg.exists
    \/ (\E i \in 1..Len(old) : old[i].display_name = C13_Name) /\ ~arg.args.force
    \/ arg.remote.replies[Len(arg.remote.replies)] # "ACTIVE"

\* C13: an upload command that changed the store saw the remote file reach
\* ACTIVE, and appended one record for it; an abandoned upload command left
\* the store as it was and did not write it.
C13_AddOnlyWhenActive ==
    op = "upload" =>
        /\ store # old =>
              /\ arg.remote.replies[Len(arg.remote.replies)] = "ACTIVE"
              /\ Len(store) = Len(old) + 1
              /\ SubSeq(store, 1, Len(old)) = old
              /\ store[Len(store)].file_name = arg.remote.name
        /\ C13_Abandoned => (store = old /\ ~saved /\ ret.entry = None)

\* an upload that was processed for a while, became ACTIVE and was recorded
C13_Witness ==
    /\ op = "upload"
    /\ Len(arg.remote.replies) > 1
    /\ store # old
    /\ ret.status = "added"

\* an upload given up because the processing ended in FAILED, on a ledger
\* that holds a record
C13_WitnessAbandoned ==
    /\ op = "upload"
    /\ arg.exists
    /\ arg.remote.replies[Len(arg.remote.replies)] = "FAILED"
    /\ ret.status = "exit 1"
    /\ Len(store) = 2

----------------------------------------------------------------------------
(* Text. A str is the sequence of its characters.                          *)

Digits == <<"0", "1", "2", "3", "4", "5", "6", "7", "8", "9">>
IsDigit(c) == \E d \in 1..10 : Digits[d] = c
DigitValue(c) == CHOOSE d \in 0..9 : Digits[d + 1] = c

\* text.startswith(prefix)
startswith(text, prefix) ==
    Len(text) >= Len(prefix) /\ SubSeq(text, 1, Len(prefix)) = prefix

\* text.split(sep): the pieces between the occurrences of sep, found from
\* the left, one more than there are occurrences
RECURSIVE split(_, _)
split(text, sep) ==
    LET At(j) == SubSeq(text, j, j + Len(sep) - 1) = sep
        Places == {j \in 1..(Len(text) - Len(sep) + 1) : At(j)}
    IN  IF Places = {} THEN <<text>>
        ELSE LET i == CHOOSE j \in Places : \A k \in Places : j <= k
             IN  <<SubSeq(text, 1, i - 1)>>
                 \o split(SubSeq(text, i + Len(sep), Len(text)), sep)

\* str.strip(): without the white space at both ends
RECURSIVE strip(_)
strip(text) ==
    IF text # << >> /\ text[1] \in {" ", "\n"} THEN strip(Tail(text))
    ELSE IF text # << >> /\ text[Len(text)] \in {" ", "\n"}
    THEN strip(SubSeq(text, 1, Len(text) - 1))
    ELSE text

\* the number a sequence of decimal digits writes
RECURSIVE DigitsValue(_)
DigitsValue(ds) ==
    IF ds = << >> THEN 0
    ELSE DigitsValue(SubSeq(ds, 1, Len(ds) - 1)) * 10 + DigitValue(ds[Len(ds)])

AllDigits(text) == \A i \in 1..Len(text) : IsDigit(text[i])

RECURSIVE Power10(_)
Power10(k) == IF k = 0 THEN 1 ELSE 10 * Power10(k - 1)

\* what a conversion gives: a value, or the exception it raises
Returns(v) == [ok |-> TRUE, value |-> v]
RaisesError(e) == [ok |-> FALSE, value |-> e]

\* a sign in front of a numeral, and the numeral without it
Sign(text) == IF text # << >> /\ text[1] = "-" THEN -1 ELSE 1
Unsigned(text) == IF text # << >> /\ text[1] \in {"+", "-"} THEN Tail(text) ELSE text

\* int(text): white space around, a sign, decimal digits
int(text) ==
    LET body == Unsigned(strip(text))
    IN  IF body # << >> /\ AllDigits(body)
        THEN Returns(Sign(strip(text)) * DigitsValue(body))
        ELSE RaisesError("ValueError")

\* a float: num / den, or one of the values that are no numbers
Finite(num, den) == [kind |-> "finite", num |-> num, den |-> den]
NotFinite(kind) == [kind |-> kind, num |-> 0, den |-> 1]

\* float(text): white space around, a sign, then nan, inf or infinity, or
\* decimal digits with at most one point among them and a digit on one
\* side of it at least
float(text) ==
    LET body == Unsigned(strip(text))
        parts == split(body, <<".">>)
        whole == parts[1]
        frac == IF Len(parts) = 2 THEN parts[2] ELSE << >>
    IN  IF body = <<"n", "a", "n">> THEN Returns(NotFinite("nan"))
        ELSE IF body \in {<<"i", "n", "f">>, <<"i", "n", "f", "i", "n", "i", "t", "y">>}
        THEN Returns(NotFinite(IF Sign(strip(text)) = 1 THEN "inf" ELSE "-inf"))
        ELSE IF /\ Len(parts) <= 2
                /\ AllDigits(whole) /\ AllDigits(frac)
                /\ whole \o frac # << >>
        THEN Returns(Finite(Sign(strip(text)) * DigitsValue(whole \o frac),
                            Power10(Len(frac))))
        ELSE RaisesError("ValueError")

\* n * k + x, for an int n and a float x
Plus(n, x) ==
    IF x.kind = "finite" THEN Finite(n * x.den + x.num, x.den) ELSE x

\* the decimal digits of n >= 0, and f"{n:0{w}d}": at least w of them
RECURSIVE DecimalDigits(_)
DecimalDigits(n) ==
    IF n < 10 THEN <<Digits[n + 1]>>
    ELSE Append(DecimalDigits(n \div 10), Digits[(n % 10) + 1])

RECURSIVE ZeroPadded(_, _)
ZeroPadded(n, w) ==
    IF Len(DecimalDigits(n)) >= w THEN DecimalDigits(n)
    ELSE <<"0">> \o ZeroPadded(n, w - 1)

\* sep.join(pieces)
RECURSIVE Join(_, _)
Join(pieces, sep) ==
    IF Len(pieces) = 0 THEN << >>
    ELSE IF Len(pieces) = 1 THEN pieces[1]
    ELSE pieces[1] \o <<sep>> \o Join(Tail(pieces), sep)

----------------------------------------------------------------------------
(* VideoExtractor.time_to_seconds                                          *)

MaxFields == 4      \* colon-separated fields of a time text

\* a time_to_seconds whose three-field branch weighs the hours as minutes
time_to_seconds_HoursAsMinutes(time_str) ==
    LET parts == split(time_str, <<":">>)
    IN  IF Len(parts) \notin {2, 3} THEN RaisesError("ValueError")
        ELSE IF \E i \in 1..(Len(parts) - 1) : ~int(parts[i]).ok
        THEN RaisesError("ValueError")
        ELSE IF ~float(parts[Len(parts)]).ok THEN RaisesError("ValueError")
        ELSE IF Len(parts) = 2
        THEN Returns(Plus(int(parts[1]).value * 60, float(parts[2]).value))
        ELSE Returns(Plus(int(parts[1]).value * 60 + int(parts[2]).value * 60,
                          float(parts[3]).value))

\* time_to_seconds(time_str): the float, or the ValueError that the last
\* branch, int() or float() raises
time_to_seconds(time_str) ==
    LET parts == split(time_str, <<":">>)
    IN  IF Len(parts) = 2
        THEN IF ~int(parts[1]).ok \/ ~float(parts[2]).ok
             THEN RaisesError("ValueError")
             ELSE Returns(Plus(int(parts[1]).value * 60, float(parts[2]).value))
        ELSE IF Len(parts) = 3
        THEN IF ~int(parts[1]).ok \/ ~int(parts[2]).ok \/ ~float(parts[3]).ok
             THEN RaisesError("ValueError")
             ELSE Returns(Plus(int(parts[1]).value * 3600 + int(parts[2]).value * 60,
                               float(parts[3]).value))
        ELSE RaisesError("ValueError")

\* the numbers written in the fields of the model, in one and in two digits
FieldValues == {0, 5, 45}
Numerals == {ZeroPadded(n, w) : n \in FieldValues, w \in 1..2}

\* the other fields of the model: empty, letters, a fraction, not-a-number
OtherFields == { << >>, <<"a", "b", "c">>, <<"1", ".", "5">>, <<"n", "a", "n">> }

\* the time texts of the model: up to MaxFields fields joined by colons,
\* "02:05", "01:02:03" and "1:2:3:4"
TimeTexts ==
    {Join(fields, ":") :
        fields \in UNION {[1..k -> Numerals \cup OtherFields] : k \in 1..MaxFields}}
    \cup {Join(<<ZeroPadded(2, 2), ZeroPadded(5, 2)>>, ":"),
          Join(<<ZeroPadded(1, 2), ZeroPadded(2, 2), ZeroPadded(3, 2)>>, ":"),
          Join(<<ZeroPadded(1, 1), ZeroPadded(2, 1), ZeroPadded(3, 1), ZeroPadded(4, 1)>>, ":")}

\* the state before a function of the pipeline is applied to the input a
InitInput(a) ==
    /\ store = << >>
    /\ now = 0
    /\ edits = 0
    /\ issued = {}
    /\ op = "input"
    /\ arg = a
    /\ ret = None
    /\ old = << >>
    /\ saved = FALSE
    /\ afterAdd = FALSE
    /\ disk = dump(<< >>)
    /\ db = << >>
    /\ pc = "idle"
    /\ files = [n \in FileNames |-> "ACTIVE"]
    /\ sent = << >>

\* the function name applied to the input: r is what it gives
Apply(name, r) ==
    /\ op = "input"
    /\ op' = name
    /\ ret' = r
    /\ UNCHANGED <<store, now, edits, issued, arg, old, saved, afterAdd, disk, db, pc,
                   files, sent>>

InitTime == \E a \in TimeTexts : InitInput(a)

TimeToSeconds == Apply("time_to_seconds", time_to_seconds(arg))

NextTime == TimeToSeconds

SpecTime == InitTime /\ [][NextTime]_vars

\* the integers a clock text writes in its fields, in one or two digits,
\* and the texts of two and of three such fields with the seconds they
\* stand for
ClockValues == FieldValues \cup {1, 2, 3}
ClockFields == {[value |-> n, text |-> ZeroPadded(n, w)] : n \in ClockValues, w \in 1..2}
ClockTexts ==
    {[text |-> Join(<<m.text, s.text>>, ":"), seconds |-> m.value * 60 + s.value] :
        m \in ClockFields, s \in ClockFields}
    \cup
    {[text |-> Join(<<h.text, m.text, s.text>>, ":"),
      seconds |-> h.value * 3600 + m.value * 60 + s.value] :
        h \in ClockFields, m \in ClockFields, s \in ClockFields}

\* C14: for a text of two fields that write the integers mm and ss the
\* result is mm * 60 + ss, and for a text of three fields that write hh, mm
\* and ss it is hh * 3600 + mm * 60 + ss.
C14_TimeToSeconds ==
    op = "time_to_seconds" =>
        \A t \in ClockTexts : arg = t.text => ret = Returns(Finite(t.seconds, 1))

\* "01:02:03" gave 3723
C14_Witness ==
    /\ op = "time_to_seconds"
    /\ arg = <<"0", "1", ":", "0", "2", ":", "0", "3">>
    /\ ret = Returns(Finite(3723, 1))

\* a field that writes a number: digits, with a sign before them and a
\* fraction after them or without
IsNumeric(field) ==
    LET body == Unsigned(field)
        parts == split(body, <<".">>)
    IN  /\ Len(parts) <= 2
        /\ \A i \in 1..Len(parts) : parts[i] # << >> /\ AllDigits(parts[i])

\* C15: time_to_seconds raises for every text that has not two or three
\* colon-separated fields, and for every text with a field that writes no
\* number.
C15_RejectsMalformed ==
    op = "time_to_seconds" =>
        LET fields == split(arg, <<":">>)
        IN  (\/ Len(fields) \notin {2, 3}
             \/ \E i \in 1..Len(fields) : ~IsNumeric(fields[i]))
            => ~ret.ok

----------------------------------------------------------------------------
(* The response parser of VideoAnalyzer.analyze_video_segments. A response *)
(* text is a sequence of pieces: the fence ```, the word json, white       *)
(* space, the punctuation of JSON, a quote, and words.                     *)

MaxSegs == 2        \* elements of an array in a response

\* the piece of three backquotes that opens and closes a fence
Backquotes == "<three backquotes>"

\* what json.loads makes of a text
JString(pieces) == [kind |-> "string", of |-> pieces]
JNumber(piece) == [kind |-> "number", of |-> <<piece>>]
JNull == [kind |-> "null", of |-> << >>]
JArray(elements) == [kind |-> "array", of |-> elements]
JObject(members) == [kind |-> "object", of |-> members]
Member(key, value) == [key |-> key, value |-> value]

\* the place of the first piece at or after i that is no white space
RECURSIVE skip(_, _)
skip(text, i) ==
    IF i <= Len(text) /\ text[i] \in {" ", "\n"} THEN skip(text, i + 1) ELSE i

\* one step of the decoder: the value that starts at a place, and the
\* place after it
Decoded(value, next) == [ok |-> TRUE, value |-> value, next |-> next]
Undecodable == [ok |-> FALSE, value |-> JNull, next |-> 0]

RECURSIVE decode_value(_, _)
RECURSIVE decode_elements(_, _, _)
RECURSIVE decode_members(_, _, _)

\* a string from its opening quote at i to the next quote
decode_string(text, i) ==
    LET Closing == {j \in (i + 1)..Len(text) : text[j] = "\""}
    IN  IF i > Len(text) \/ text[i] # "\"" \/ Closing = {} THEN Undecodable
        ELSE LET j == CHOOSE c \in Closing : \A d \in Closing : c <= d
             IN  Decoded(JString(SubSeq(text, i + 1, j - 1)), j + 1)

decode_value(text, i0) ==
    LET i == skip(text, i0)
    IN  IF i > Len(text) THEN Undecodable
        ELSE IF text[i] = "\"" THEN decode_string(text, i)
        ELSE IF text[i] = "null" THEN Decoded(JNull, i + 1)
        ELSE IF AllDigits(<<text[i]>>) THEN Decoded(JNumber(text[i]), i + 1)
        ELSE IF text[i] = "[" THEN decode_elements(text, i + 1, << >>)
        ELSE IF text[i] = "{" THEN decode_members(text, i + 1, << >>)
        ELSE Undecodable

\* the elements of an array after its [ or after a comma
decode_elements(text, i0, elements) ==
    LET i == skip(text, i0)
        v == decode_value(text, i)
        j == skip(text, v.next)
    IN  IF elements = << >> /\ i <= Len(text) /\ text[i] = "]"
        THEN Decoded(JArray(<< >>), i + 1)
        ELSE IF ~v.ok \/ j > Len(text) THEN Undecodable
        ELSE IF text[j] = "," THEN decode_elements(text, j + 1, Append(elements, v.value))
        ELSE IF text[j] = "]" THEN Decoded(JArray(Append(elements, v.value)), j + 1)
        ELSE Undecodable

\* the members of an object after its { or after a comma
decode_members(text, i0, members) ==
    LET i == skip(text, i0)
        k == decode_string(text, i)
        c == skip(text, k.next)
        v == decode_value(text, c + 1)
        j == skip(text, v.next)
    IN  IF members = << >> /\ i <= Len(text) /\ text[i] = "}"
        THEN Decoded(JObject(<< >>), i + 1)
        ELSE IF ~k.ok \/ c > Len(text) \/ text[c] # ":" THEN Undecodable
        ELSE IF ~v.ok \/ j > Len(text) THEN Undecodable
        ELSE IF text[j] = ","
        THEN decode_members(text, j + 1, Append(members, Member(k.value.of, v.value)))
        ELSE IF text[j] = "}"
        THEN Decoded(JObject(Append(members, Member(k.value.of, v.value))), j + 1)
        ELSE Undecodable

\* json.loads(text): one value with white space around it and nothing else
json_loads(text) ==
    LET v == decode_value(text, 1)
    IN  IF v.ok /\ skip(text, v.next) > Len(text)
        THEN Returns(v.value)
        ELSE RaisesError("JSONDecodeError")

\* d[key] and d.get(key, default) on a decoded object: the last member
\* of that key
Has(d, key) == \E i \in 1..Len(d.of) : d.of[i].key = <<key>>
Get(d, key) ==
    LET i == CHOOSE j \in 1..Len(d.of) :
                 d.of[j].key = <<key>> /\ \A k \in (j + 1)..Len(d.of) : d.of[k].key # <<key>>
    IN  d.of[i].value

\* what  for seg in segments_data  goes through: the elements of a list,
\* the keys of a dict, the characters of a str; anything else raises
Iterated(data) ==
    IF data.kind = "array" THEN Returns(data.of)
    ELSE IF data.kind = "object"
    THEN Returns([i \in 1..Len(data.of) |-> JString(data.of[i].key)])
    ELSE IF data.kind = "string"
    THEN Returns([i \in 1..Len(data.of) |-> JString(<<data.of[i]>>)])
    ELSE RaisesError("TypeError")

\* VideoSegment(start_time=seg["start_time"], ...) for one seg
VideoSegment(seg) ==
    IF seg.kind # "object" THEN RaisesError("TypeError")
    ELSE IF ~Has(seg, "start_time") \/ ~Has(seg, "end_time") \/ ~Has(seg, "activity")
    THEN RaisesError("KeyError")
    ELSE Returns([start_time |-> Get(seg, "start_time"),
                  end_time |-> Get(seg, "end_time"),
                  activity |-> Get(seg, "activity"),
                  description |-> IF Has(seg, "description")
                                  THEN Get(seg, "description")
                                  ELSE JString(<< >>)])

\* the text between the fences: what follows the first fence, up to the
\* next run of three backquotes, stripped
Fenced(text, fence) == strip(split(split(text, fence)[2], <<Backquotes>>)[1])

\* the parser of analyze_video_segments, from response.text on: the list
\* of segments, or the exception; the list comprehension gives the whole
\* list or raises
parse_response(response_text) ==
    LET stripped == strip(response_text)
        text == IF startswith(stripped, <<Backquotes, "json">>)
                THEN Fenced(stripped, <<Backquotes, "json">>)
                ELSE IF startswith(stripped, <<Backquotes>>)
                THEN Fenced(stripped, <<Backquotes>>)
                ELSE stripped
        data == json_loads(text)
        items == Iterated(data.value)
    IN  IF ~data.ok THEN data
        ELSE IF ~items.ok THEN items
        ELSE IF \E i \in 1..Len(items.value) : ~VideoSegment(items.value[i]).ok
        THEN RaisesError("KeyError")
        ELSE Returns([i \in 1..Len(items.value) |-> VideoSegment(items.value[i]).value])

\* the JSON text of a value, as the pieces of a compact writing of it
RECURSIVE JsonText(_)
JsonText(v) ==
    IF v.kind = "string" THEN <<"\"">> \o v.of \o <<"\"">>
    ELSE IF v.kind = "number" THEN v.of
    ELSE IF v.kind = "null" THEN <<"null">>
    ELSE IF v.kind = "array"
    THEN <<"[">> \o Join([i \in 1..Len(v.of) |-> JsonText(v.of[i])], ",") \o <<"]">>
    ELSE <<"{">>
         \o Join([i \in 1..Len(v.of) |->
                    <<"\"">> \o v.of[i].key \o <<"\"", ":">> \o JsonText(v.of[i].value)],
                 ",")
         \o <<"}">>

\* the objects of the model: a segment with all four keys, one without a
\* description, one whose description quotes a fence, one without an
\* activity
Times == <<Member(<<"start_time">>, JString(<<"00:00">>)),
           Member(<<"end_time">>, JString(<<"00:10">>))>>
SegmentFull ==
    JObject(Times \o <<Member(<<"activity">>, JString(<<"Open", " ", "door">>)),
                       Member(<<"description">>, JString(<<"a">>))>>)
SegmentBrief == JObject(Times \o <<Member(<<"activity">>, JString(<<"Close">>))>>)
SegmentQuotingFence ==
    JObject(Times \o <<Member(<<"activity">>, JString(<<"Type">>)),
                       Member(<<"description">>, JString(<<"types", " ", Backquotes>>))>>)
SegmentNoActivity ==
    JObject(Times \o <<Member(<<"description">>, JString(<<"a">>))>>)

\* arrays of up to MaxSegs elements, each one of these objects or a number
Elements == {SegmentFull, SegmentBrief, SegmentQuotingFence, SegmentNoActivity,
             JNumber("5")}
Arrays == {JArray(elements) : elements \in UNION {[1..n -> Elements] : n \in 0..MaxSegs}}

\* values that are no arrays: objects, strings, a number, null
NoArrays == {JObject(<< >>), SegmentFull, JString(<< >>), JString(<<"abc">>),
             JNumber("5"), JNull}

\* the responses of the model: the text of a value, whole or without its
\* last piece, bare or between fences, with white space around it or not
Responses ==
    [value : Arrays \cup NoArrays, cut : {0, 1},
     fence : {"none", "json", "plain"}, space : BOOLEAN]

Response(r) ==
    LET whole == JsonText(r.value)
        text == SubSeq(whole, 1, Len(whole) - r.cut)
        block == IF r.fence = "json" THEN <<Backquotes, "json", "\n">> \o text \o <<"\n", Backquotes>>
                 ELSE IF r.fence = "plain" THEN <<Backquotes, "\n">> \o text \o <<"\n", Backquotes>>
                 ELSE text
    IN  IF r.space THEN <<"\n">> \o block \o <<" ", "\n">> ELSE block

InitParse == \E r \in Responses : InitInput(r)

ParseResponse == Apply("parse_response", parse_response(Response(arg)))

NextParse == ParseResponse

SpecParse == InitParse /\ [][NextParse]_vars

\* an object with the three keys a segment must have
IsSegmentObject(v) ==
    /\ v.kind = "object"
    /\ Has(v, "start_time") /\ Has(v, "end_time") /\ Has(v, "activity")

\* the segments an array of segment objects stands for
SegmentsOf(array) ==
    [i \in 1..Len(array.of) |->
        [start_time |-> Get(array.of[i], "start_time"),
         end_time |-> Get(array.of[i], "end_time"),
         activity |-> Get(array.of[i], "activity"),
         description |-> IF Has(array.of[i], "description")
                         THEN Get(array.of[i], "description")
                         ELSE JString(<< >>)]]

\* C16: for the text of an array of segment objects, bare, in a json fence
\* or in a plain fence, with white space around it or not, the parser
\* returns one segment for each element, in the order of the array, with
\* an empty description where the element has none.
C16_FencesParseAlike ==
    (/\ op = "parse_response"
     /\ arg.cut = 0
     /\ arg.value.kind = "array"
     /\ \A i \in 1..Len(arg.value.of) : IsSegmentObject(arg.value.of[i]))
    => (ret.ok /\ ret.value = SegmentsOf(arg.value))

\* C17: the parser raises when the text is no JSON, when it is JSON but no
\* array of objects, and when an element of the array lacks start_time,
\* end_time or activity.
C17_RejectsMalformed ==
    (/\ op = "parse_response"
     /\ \/ arg.cut = 1
        \/ arg.value.kind # "array"
        \/ \E i \in 1..Len(arg.value.of) : ~IsSegmentObject(arg.value.of[i]))
    => ~ret.ok

----------------------------------------------------------------------------
(* VideoExtractor.extract_segment                                          *)

\* x - p for a float x and a whole number of seconds p
Minus(x, p) == IF x.kind = "finite" THEN Finite(x.num - p * x.den, x.den) ELSE x

\* max(0, x): 0 unless x is greater
MaxZero(x) ==
    IF x.kind = "inf" \/ (x.kind = "finite" /\ x.num > 0) THEN x ELSE Finite(0, 1)

\* x - y
Difference(x, y) ==
    IF x.kind = "finite" /\ y.kind = "finite"
    THEN Finite(x.num * y.den - y.num * x.den, x.den * y.den)
    ELSE IF x.kind = "nan" \/ y.kind = "nan" \/ x.kind = y.kind THEN NotFinite("nan")
    ELSE IF x.kind # "finite" THEN x
    ELSE NotFinite(IF y.kind = "inf" THEN "-inf" ELSE "inf")

\* what subprocess.run(cmd, ..., check=True) can do: return when the
\* transcoder exits with code zero, raise CalledProcessError when it exits
\* with another code, raise OSError when it cannot be started
Transcoder == {"exit 0", "exit 1", "OSError"}

\* the ffmpeg command line of extract_segment
ffmpeg(start_seconds, duration, input_video, overwrite, output_path) ==
    [ss |-> start_seconds, i |-> input_video, t |-> duration, y |-> overwrite,
     output |-> output_path]

\* what extract_segment gives: its Boolean, and the command it ran if any
Extracted(result, cmd) == [result |-> result, cmd |-> cmd]

\* an extract_segment that runs the transcoder without check=True
extract_segment_Unchecked(input_video, segment, output_path, overwrite, padding_seconds, run) ==
    LET start == time_to_seconds(segment.start_time)
        end == time_to_seconds(segment.end_time)
        start_seconds == MaxZero(Minus(start.value, padding_seconds))
        end_seconds == Plus(padding_seconds, end.value)
        cmd == ffmpeg(start_seconds, Difference(end_seconds, start_seconds),
                      input_video, overwrite, output_path)
    IN  IF ~start.ok \/ ~end.ok THEN Extracted(FALSE, None)
        ELSE Extracted(run # "OSError", Some(cmd))

\* an extract_segment that moves the start back by the padding without
\* stopping at zero
extract_segment_Unclamped(input_video, segment, output_path, overwrite, padding_seconds, run) ==
    LET start == time_to_seconds(segment.start_time)
        end == time_to_seconds(segment.end_time)
        start_seconds == Minus(start.value, padding_seconds)
        end_seconds == Plus(padding_seconds, end.value)
        cmd == ffmpeg(start_seconds, Difference(end_seconds, start_seconds),
                      input_video, overwrite, output_path)
    IN  IF ~start.ok \/ ~end.ok THEN Extracted(FALSE, None)
        ELSE Extracted(run = "exit 0", Some(cmd))

\* extract_segment(input_video, segment, output_path, overwrite,
\* padding_seconds), with what subprocess.run does when it is reached
extract_segment(input_video, segment, output_path, overwrite, padding_seconds, run) ==
    LET start == time_to_seconds(segment.start_time)
        end == time_to_seconds(segment.end_time)
        start_seconds == MaxZero(Minus(start.value, padding_seconds))
        end_seconds == Plus(padding_seconds, end.value)
        cmd == ffmpeg(start_seconds, Difference(end_seconds, start_seconds),
                      input_video, overwrite, output_path)
    IN  IF ~start.ok \/ ~end.ok THEN Extracted(FALSE, None)
        ELSE Extracted(run = "exit 0", Some(cmd))

\* the time texts of the segments of the model
Text0000 == <<"0", "0", ":", "0", "0">>
Text0010 == <<"0", "0", ":", "1", "0">>
SegmentTimes ==
    { Text0000, Text0010, <<"0", ":", "1", ".", "5">>, <<"0", "1", ":", "0", "2", ":", "0", "3">>,
      <<"a", "b", "c", ":", "0", "0">>, <<"4", "5">>, <<"0", ":", "n", "a", "n">> }

ExtractInputs ==
    [segment : [start_time : SegmentTimes, end_time : SegmentTimes,
                activity : {<<"a">>}],
     overwrite : BOOLEAN, padding_seconds : {0, 1}, run : Transcoder]

InitSegment == \E a \in ExtractInputs : InitInput(a)

ExtractSegment ==
    Apply("extract_segment",
          extract_segment(<<"a", ".", "m", "p", "4">>, arg.segment, <<"o", ".", "m", "p", "4">>,
                          arg.overwrite, arg.padding_seconds, arg.run))

NextSegment == ExtractSegment

SpecSegment == InitSegment /\ [][NextSegment]_vars

\* C18: extract_segment returns a Boolean, never an exception: true exactly
\* when the transcoder was run and exited with code zero, false when it
\* exited otherwise or could not be started, and false without running the
\* transcoder when time_to_seconds rejects start_time or end_time.
C18_ExtractSegment ==
    op = "extract_segment" =>
        LET rejected == \/ ~time_to_seconds(arg.segment.start_time).ok
                        \/ ~time_to_seconds(arg.segment.end_time).ok
        IN  /\ ret.result \in BOOLEAN
            /\ ret.result = (ret.cmd # None /\ arg.run = "exit 0")
            /\ rejected => (ret.cmd = None /\ ret.result = FALSE)
            /\ ~rejected => ret.cmd # None

\* a transcoder that exited with code 1 on a segment of valid times
C18_Witness ==
    /\ op = "extract_segment"
    /\ arg.run = "exit 1"
    /\ ret.cmd # None
    /\ ret.result = FALSE

\* a segment whose end_time is rejected, with a transcoder that would work
C18_WitnessRejected ==
    /\ op = "extract_segment"
    /\ arg.segment.start_time = Text0000
    /\ arg.segment.end_time = <<"4", "5">>
    /\ arg.run = "exit 0"
    /\ ret = Extracted(FALSE, None)

----------------------------------------------------------------------------
(* VideoExtractor.extract_all_segments                                     *)

Upper == <<"A", "B", "C", "D", "E", "F", "G", "H", "I", "J", "K", "L", "M",
           "N", "O", "P", "Q", "R", "S", "T", "U", "V", "W", "X", "Y", "Z">>
Lower == <<"a", "b", "c", "d", "e", "f", "g", "h", "i", "j", "k", "l", "m",
           "n", "o", "p", "q", "r", "s", "t", "u", "v", "w", "x", "y", "z">>

\* c.isalnum() and c.lower() for one character
isalnum(c) == IsDigit(c) \/ \E k \in 1..26 : Upper[k] = c \/ Lower[k] = c
lower(c) == IF \E k \in 1..26 : Upper[k] = c
            THEN Lower[CHOOSE k \in 1..26 : Upper[k] = c]
            ELSE c

\* os.path.splitext(path)[1]: from the last dot of the last component on,
\* when that dot has a character other than a dot before it there
splitext(path) ==
    LET Slashes == {j \in 1..Len(path) : path[j] = "/"}
        base == IF Slashes = {} THEN 1
                ELSE 1 + CHOOSE j \in Slashes : \A k \in Slashes : k <= j
        Dots == {j \in base..Len(path) :
                    path[j] = "." /\ \E k \in base..(j - 1) : path[k] # "."}
    IN  IF Dots = {} THEN << >>
        ELSE SubSeq(path, CHOOSE j \in Dots : \A k \in Dots : k <= j, Len(path))

\* os.path.join(directory, name) for a relative name
join(directory, name) ==
    IF directory = << >> \/ directory[Len(directory)] = "/" THEN directory \o name
    ELSE directory \o <<"/">> \o name

\* the two steps that make safe_activity
safe_activity(activity) ==
    LET kept == [k \in 1..Len(activity) |->
                    IF isalnum(activity[k]) \/ activity[k] \in {" ", "-", "_"}
                    THEN activity[k] ELSE "_"]
    IN  [k \in 1..Len(kept) |-> lower(IF kept[k] = " " THEN "_" ELSE kept[k])]

\* f"{prefix}_{i:03d}_{safe_activity}{ext}"
output_filename(prefix, i, activity, ext) ==
    prefix \o <<"_">> \o ZeroPadded(i, 3) \o <<"_">> \o safe_activity(activity) \o ext

\* one turn of the loop of extract_all_segments for the i-th segment, which
\* gets the number n in its file name: the call of extract_segment, added
\* to those made so far, and its path appended if it returned true; a holds
\* the arguments, a.run[i] is what the transcoder does for the i-th segment
extract_turn(a, i, n, done) ==
    LET output_path ==
            join(a.output_dir,
                 output_filename(a.prefix, n, a.segments[i].activity,
                                 splitext(a.input_video)))
        r == extract_segment(a.input_video, a.segments[i], output_path, a.overwrite,
                             a.padding_seconds, a.run[i])
    IN  [calls |-> Append(done.calls, [segment |-> a.segments[i],
                                        output_path |-> output_path,
                                        result |-> r.result]),
         extracted_files |-> IF r.result THEN Append(done.extracted_files, output_path)
                             ELSE done.extracted_files]

\* a loop that numbers the files by the extractions that succeeded so far
RECURSIVE extract_loop_CountsSuccesses(_, _, _)
extract_loop_CountsSuccesses(a, i, done) ==
    IF i > Len(a.segments) THEN done
    ELSE extract_loop_CountsSuccesses(
             a, i + 1, extract_turn(a, i, Len(done.extracted_files) + 1, done))

\* a loop that ends at the first segment that fails
RECURSIVE extract_loop_StopsAtFailure(_, _, _)
extract_loop_StopsAtFailure(a, i, done) ==
    IF i > Len(a.segments) \/ Len(done.extracted_files) < Len(done.calls) THEN done
    ELSE extract_loop_StopsAtFailure(a, i + 1, extract_turn(a, i, i, done))

\* the loop  for i, segment in enumerate(segments, 1)  from i on
RECURSIVE extract_loop(_, _, _)
extract_loop(a, i, done) ==
    IF i > Len(a.segments) THEN done
    ELSE extract_loop(a, i + 1, extract_turn(a, i, i, done))

\* extract_all_segments(input_video, segments, output_dir, prefix,
\* overwrite, padding_seconds) for the arguments a: extracted_files, and
\* the calls of extract_segment it made
extract_all_segments(a) ==
    extract_loop(a, 1, [calls |-> << >>, extracted_files |-> << >>])

\* the segments of the model: one of valid times labelled "Pick up Cup #1!",
\* one of valid times labelled "a-b_c", one whose start_time is rejected
BatchSegments ==
    { [start_time |-> Text0000, end_time |-> Text0010,
       activity |-> <<"P", "i", "c", "k", " ", "u", "p", " ", "C", "u", "p", " ", "#", "1", "!">>],
      [start_time |-> Text0010, end_time |-> Text0010,
       activity |-> <<"a", "-", "b", "_", "c">>],
      [start_time |-> <<"a", "b", "c", ":", "0", "0">>, end_time |-> Text0010,
       activity |-> <<"O", "p", "e", "n", " ", "d", "o", "o", "r">>] }

VideoWithExtension == <<"/", "v", "/", "a", ".", "m", "p", "4">>
VideoWithout == <<"/", "v", ".", "d", "/", "c", "l", "i", "p">>

\* batches of up to MaxSegs segments, with what the transcoder does for
\* each of them
BatchInputs ==
    UNION {[segments : [1..n -> BatchSegments], run : [1..n -> {"exit 0", "exit 1"}],
            prefix : {<<"p">>, <<"s", "e", "g", "m", "e", "n", "t">>},
            input_video : {VideoWithExtension, VideoWithout},
            output_dir : {<<"o", "u", "t">>}, overwrite : {FALSE},
            padding_seconds : {1}] : n \in 0..MaxSegs}

InitBatch == \E a \in BatchInputs : InitInput(a)

ExtractAllSegments ==
    Apply("extract_all_segments", extract_all_segments(arg))

NextBatch == ExtractAllSegments

SpecBatch == InitBatch /\ [][NextBatch]_vars

\* C19: extract_all_segments calls extract_segment once for each input
\* segment, in input order, whatever the earlier calls returned, and returns
\* the output paths of the calls that returned true, in that order.
C19_ExtractAll ==
    op = "extract_all_segments" =>
        LET succeeded == SelectSeq(ret.calls, LAMBDA c : c.result)
        IN  /\ Len(ret.calls) = Len(arg.segments)
            /\ \A i \in 1..Len(ret.calls) :
                  /\ ret.calls[i].segment = arg.segments[i]
                  /\ ret.calls[i].result =
                        (/\ time_to_seconds(arg.segments[i].start_time).ok
                         /\ time_to_seconds(arg.segments[i].end_time).ok
                         /\ arg.run[i] = "exit 0")
            /\ ret.extracted_files =
                  [k \in 1..Len(succeeded) |-> succeeded[k].output_path]

\* a batch of two whose first extraction failed and whose second succeeded
C19_Witness ==
    /\ op = "extract_all_segments"
    /\ Len(ret.calls) = 2
    /\ ~ret.calls[1].result
    /\ ret.calls[2].result
    /\ ret.extracted_files = <<ret.calls[2].output_path>>

\* the sanitized activity as specified: lowercased, with an underscore
\* for every character that is no letter, digit, hyphen or underscore
Sanitized(activity) ==
    [k \in 1..Len(activity) |->
        IF isalnum(activity[k]) \/ activity[k] \in {"-", "_"}
        THEN lower(activity[k]) ELSE "_"]

\* the extension of the source video
SourceExtension(video) ==
    IF video = VideoWithExtension THEN <<".", "m", "p", "4">> ELSE << >>

\* C20: the file of the segment at input position i is named prefix, "_",
\* i in at least three digits, "_", the sanitized activity, and the source
\* extension, in the output directory.
C20_OutputFilename ==
    op = "extract_all_segments" =>
        \A i \in 1..Len(ret.calls) :
            ret.calls[i].output_path =
                arg.output_dir \o <<"/">> \o arg.prefix \o <<"_">>
                \o ZeroPadded(i, 3)
                \o <<"_">> \o Sanitized(arg.segments[i].activity)
                \o SourceExtension(arg.input_video)

\* prefix "p", "Pick up Cup #1!" at position 2 after a failed first segment:
\* out/p_002_pick_up_cup__1_.mp4
C20_Witness ==
    /\ op = "extract_all_segments"
    /\ Len(ret.calls) = 2
    /\ ~ret.calls[1].result
    /\ arg.segments[2].activity = <<"P", "i", "c", "k", " ", "u", "p", " ", "C", "u", "p", " ", "#", "1", "!">>
    /\ ret.calls[2].output_path = <<"o", "u", "t", "/", "p", "_", "0", "0", "2", "_", "p", "i", "c", "k", "_", "u", "p", "_", "c", "u", "p", "_", "_", "1", "_", ".", "m", "p", "4">>

----------------------------------------------------------------------------
(* VideoExtractor.convert_to_gif                                           *)

\* str.replace(sub, new): every occurrence of sub, from left to right
RECURSIVE Concat(_, _)
Concat(pieces, new) ==
    IF Len(pieces) = 1 THEN pieces[1]
    ELSE pieces[1] \o new \o Concat(Tail(pieces), new)

replace(text, sub, new) == Concat(split(text, sub), new)

\* 1024 * 1024, the bytes of one megabyte
MiB == 1024 * 1024

\* what a file holds: a palette or a GIF made at a width, or the part of
\* one that a failing transcoder wrote
Palette(width) == [kind |-> "palette", width |-> width, bytes |-> 1]
Gif(width, bytes) == [kind |-> "gif", width |-> width, bytes |-> bytes]
Partial == [kind |-> "partial", width |-> 0, bytes |-> 0]
Video == [kind |-> "video", width |-> 640, bytes |-> 1]

\* the file system: a function from the paths that exist to what they hold
exists(fs, path) == path \in DOMAIN fs
getsize(fs, path) == fs[path].bytes
written(fs, path, content) ==
    [p \in (DOMAIN fs) \cup {path} |-> IF p = path THEN content ELSE fs[p]]
remove(fs, path) == [p \in (DOMAIN fs) \ {path} |-> fs[p]]
os_replace(fs, src, dst) == remove(written(fs, dst, fs[src]), src)

\* the arguments of a command line: words, paths and filter graphs
Word(w) == [kind |-> "word", of |-> w]
Path(p) == [kind |-> "path", of |-> p]
Filter(use, fps, width) ==
    [kind |-> "filter", of |-> [use |-> use, fps |-> fps, scale |-> width]]

\* the two ffmpeg command lines of convert_to_gif, as the lists they are
palette_cmd(input_video, fps, width, palette_path) ==
    <<Word("ffmpeg"), Word("-i"), Path(input_video), Word("-vf"),
      Filter("palettegen", fps, width), Word("-y"), Path(palette_path)>>
gif_cmd(input_video, palette_path, fps, width, output_gif) ==
    <<Word("ffmpeg"), Word("-i"), Path(input_video), Word("-i"), Path(palette_path),
      Word("-lavfi"), Filter("paletteuse", fps, width), Word("-y"), Path(output_gif)>>

\* cmd[k] = x and cmd[-1] = x of a Python list, whose first index is 0
SetItem(cmd, k, x) == [cmd EXCEPT ![k + 1] = x]
SetLast(cmd, x) == [cmd EXCEPT ![Len(cmd)] = x]

\* ffmpeg reads an argument that is not an option and not the value of one
\* as the name of an output file, and gives up when the name shows no
\* format: it accepts a command whose filter graphs all follow -vf or -lavfi
accepts(cmd) ==
    \A k \in 1..Len(cmd) :
        cmd[k].kind = "filter" =>
            k > 1 /\ cmd[k - 1] \in {Word("-vf"), Word("-lavfi")}

\* what an accepted command writes, and where
GraphOf(cmd) == cmd[CHOOSE k \in 1..Len(cmd) : cmd[k].kind = "filter"].of
OutputOf(cmd) == cmd[Len(cmd)].of
Made(cmd, bytes) ==
    IF GraphOf(cmd).use = "palettegen" THEN Palette(GraphOf(cmd).scale)
    ELSE Gif(GraphOf(cmd).scale, bytes)

\* subprocess.run(cmd, ..., check=True) in the state s = [fs, cmds], with a
\* transcoder that can exit with code zero, exit otherwise or fail to
\* start: it writes its output when it accepts the command and exits with
\* code zero; one that exits otherwise on a command it accepts may have
\* written a part of the output; bytes is the size of the GIF it would make
run(s, cmd, outcome, partial, bytes) ==
    [ok |-> outcome = "exit 0" /\ accepts(cmd),
     fs |-> IF ~accepts(cmd) THEN s.fs
            ELSE IF outcome = "exit 0" THEN written(s.fs, OutputOf(cmd), Made(cmd, bytes))
            ELSE IF outcome = "exit 1" /\ partial THEN written(s.fs, OutputOf(cmd), Partial)
            ELSE s.fs,
     cmds |-> Append(s.cmds, cmd)]

\* the names of the intermediate files
PaletteSuffix == <<"_", "p", "a", "l", "e", "t", "t", "e", ".", "p", "n", "g">>
TempSuffix == <<"_", "t", "e", "m", "p", ".", "g", "i", "f">>
DotGif == <<".", "g", "i", "f">>
palette_name(output_gif) == replace(output_gif, DotGif, PaletteSuffix)
temp_name(output_gif) == replace(output_gif, DotGif, TempSuffix)

\* file_size_mb > max_size_mb, for a file of so many bytes
oversized(bytes, max_size_mb) == bytes > max_size_mb * MiB

\* int(width * 0.75)
reduced(width) == (width * 3) \div 4

\* what convert_to_gif gives: its Boolean, the file system it leaves, the
\* commands it ran and the sizes it compared with max_size_mb
Converted(result, s, checked) ==
    [result |-> result, fs |-> s.fs, cmds |-> s.cmds, checked |-> checked]

\* the second attempt of convert_to_gif, from the state s after the size
\* check: the two command lists of the first attempt, changed in place
convert_again(s, input_video, output_gif, fps, width, world) ==
    LET palette_path == palette_name(output_gif)
        new_width == reduced(width)
        temp_gif == temp_name(output_gif)
        palette_cmd2 == SetItem(palette_cmd(input_video, fps, width, palette_path), 3,
                                Filter("palettegen", fps, new_width))
        gif_cmd2 == SetLast(SetItem(gif_cmd(input_video, palette_path, fps, width, output_gif),
                                    5, Filter("paletteuse", fps, new_width)),
                            Path(temp_gif))
        s1 == run(s, palette_cmd2, world.runs[3], world.partial, world.size2)
        s2 == run(s1, gif_cmd2, world.runs[4], world.partial, world.size2)
        s3 == [s2 EXCEPT !.fs = os_replace(s2.fs, temp_gif, output_gif)]
        s4 == [s3 EXCEPT !.fs = IF exists(s3.fs, palette_path)
                                THEN remove(s3.fs, palette_path) ELSE s3.fs]
        checked == <<getsize(s.fs, output_gif)>>
    IN  IF ~s1.ok THEN Converted(FALSE, s1, checked)
        ELSE IF ~s2.ok THEN Converted(FALSE, s2, checked)
        ELSE Converted(TRUE, s4, checked)

\* convert_to_gif(input_video, output_gif, max_size_mb, fps, width) in a
\* world = [fs, runs, partial, size1, size2]: the files there are, what the
\* transcoder does each time it is run, and the bytes of the GIF it makes at
\* the requested and at the reduced width
convert_to_gif(input_video, output_gif, max_size_mb, fps, width, world) ==
    LET palette_path == palette_name(output_gif)
        s0 == [fs |-> world.fs, cmds |-> << >>]
        s1 == run(s0, palette_cmd(input_video, fps, width, palette_path),
                  world.runs[1], world.partial, world.size1)
        s2 == run(s1, gif_cmd(input_video, palette_path, fps, width, output_gif),
                  world.runs[2], world.partial, world.size1)
        s3 == [s2 EXCEPT !.fs = IF exists(s2.fs, palette_path)
                                THEN remove(s2.fs, palette_path) ELSE s2.fs]
    IN  IF ~s1.ok THEN Converted(FALSE, s1, << >>)
        ELSE IF ~s2.ok THEN Converted(FALSE, s2, << >>)
        ELSE IF ~exists(s3.fs, output_gif) THEN Converted(FALSE, s3, << >>)
        ELSE IF oversized(getsize(s3.fs, output_gif), max_size_mb)
        THEN convert_again(s3, input_video, output_gif, fps, width, world)
        ELSE Converted(TRUE, s3, <<getsize(s3.fs, output_gif)>>)

\* the inputs of the model: an output path that ends in ".gif" and one that
\* does not hold ".gif", sizes around the limit of 4 megabytes
InputVideo == <<"a", ".", "m", "p", "4">>
OutGif == <<"o", ".", "g", "i", "f">>
OutUpper == <<"o", ".", "G", "I", "F">>
MaxSizeMb == 4
GifSizes == {MaxSizeMb * MiB - 1, MaxSizeMb * MiB, MaxSizeMb * MiB + 1}
GifWidths == {480, 10}
GifWorlds ==
    [fs : {[p \in {InputVideo} |-> Video]},
     runs : [1..4 -> Transcoder], partial : BOOLEAN,
     size1 : GifSizes, size2 : GifSizes]
GifInputs == [output_gif : {OutGif, OutUpper}, width : GifWidths, world : GifWorlds]

InitGif == \E a \in GifInputs : InitInput(a)

ConvertToGif ==
    Apply("convert_to_gif",
          convert_to_gif(InputVideo, arg.output_gif, MaxSizeMb, 10, arg.width, arg.world))

NextGif == ConvertToGif

SpecGif == InitGif /\ [][NextGif]_vars

\* the files convert_to_gif names after output_gif, and its second attempt
RetriedGif == Len(ret.cmds) > 2
FirstEncodeMade == arg.world.runs[1] = "exit 0" /\ arg.world.runs[2] = "exit 0"
SecondEncodeRuns == arg.world.runs[3] = "exit 0" /\ arg.world.runs[4] = "exit 0"

\* C21: convert_to_gif re-encodes at most once: the pass at the reduced
\* width, 75% of the requested one, runs exactly when the first output is
\* larger than max_size_mb, its output takes the place of the oversized one
\* at output_gif, nothing is run after it, and a transcoder that fails in
\* any pass makes convert_to_gif return false. Stated for an output path
\* that ends in ".gif".
C21_ReencodesOnce ==
    (op = "convert_to_gif" /\ arg.output_gif = OutGif) =>
        LET palette_path == <<"o">> \o PaletteSuffix
            temp_gif == <<"o">> \o TempSuffix
            new_width == reduced(arg.width)
        IN  /\ Len(ret.cmds) <= 4
            /\ RetriedGif <=> (FirstEncodeMade /\ arg.world.size1 > MaxSizeMb * MiB)
            /\ 4 * new_width <= 3 * arg.width /\ 3 * arg.width < 4 * (new_width + 1)
            /\ RetriedGif =>
                 ret.cmds[3] = palette_cmd(InputVideo, 10, new_width, palette_path)
            /\ Len(ret.cmds) = 4 =>
                 ret.cmds[4] = gif_cmd(InputVideo, palette_path, 10, new_width, temp_gif)
            /\ (RetriedGif /\ SecondEncodeRuns) =>
                 /\ ret.result = TRUE
                 /\ ret.fs[OutGif] = Gif(new_width, arg.world.size2)
                 /\ ~exists(ret.fs, temp_gif)
            /\ (\E k \in 1..Len(ret.cmds) : arg.world.runs[k] # "exit 0") =>
                 ret.result = FALSE

\* C22: when convert_to_gif has returned, no palette file that it made is on
\* the disk, whether it encoded once or twice.
C22_NoPaletteLeft ==
    op = "convert_to_gif" =>
        \A p \in DOMAIN ret.fs : ret.fs[p].kind # "palette"

\* C30: convert_to_gif compares the output size with max_size_mb once, after
\* the first encode: when the transcoder runs of the second attempt succeed
\* it returns true whatever the new size is, and when one of them fails it
\* returns false with the oversized first output still at output_gif.
\* Stated for an output path that ends in ".gif".
C30_SizeCheckedOnce ==
    (op = "convert_to_gif" /\ arg.output_gif = OutGif) =>
        /\ Len(ret.checked) <= 1
        /\ FirstEncodeMade => ret.checked = <<arg.world.size1>>
        /\ (RetriedGif /\ SecondEncodeRuns) => ret.result = TRUE
        /\ (RetriedGif /\ ~SecondEncodeRuns) =>
             /\ ret.result = FALSE
             /\ ret.fs[OutGif] = Gif(arg.width, arg.world.size1)

----------------------------------------------------------------------------
(* bin/compare_prompts.py: main, on a ledger, a clock and a collaborator   *)
(* that go on while the command runs                                       *)

\* the command lines of the model: a video id or none (interactive
\* selection), --skip-analysis, and the prompts to test
PromptLists == {<<"original">>, <<"original", "minimal">>}
CompareArgs ==
    [video_source : {None} \cup {Some(i) : i \in 1..AbsentId},
     skip_analysis : BOOLEAN, prompts : PromptLists]

\* what the collaborator can answer for each resource name while the
\* command runs
Availability == [FileNames -> {"ACTIVE", "NOT_FOUND"}]

\* the local variables of main: the selected record and the prompts done
Locals(video_info, done) == [video_info |-> video_info, done |-> done]

InitCompare ==
    /\ store \in Ledgers(MaxLen)
    /\ now \in Instants
    /\ edits = 0
    /\ issued = IdsOf(store)
    /\ op = "init"
    /\ arg \in CompareArgs
    /\ ret = None
    /\ old = store
    /\ saved = FALSE
    /\ afterAdd = FALSE
    /\ disk = dump(store)
    /\ db = Locals(None, 0)
    /\ pc = "start"
    /\ files \in Availability
    /\ sent = << >>

\* what no step of the command changes
CompareIdle == UNCHANGED <<store, edits, issued, arg, ret, old, saved, afterAdd, disk>>

\* the checks on a record before it is used: is_expired, check_file_exists
usable(video, client, t) == ~is_expired(video, t) /\ check_file_exists(video, client)

\* main with a video id: the record is looked up and, unless
\* --skip-analysis is given, checked
SelectById ==
    /\ pc = "start"
    /\ arg.video_source # None
    /\ LET video_info == get_video(store, arg.video_source[1])
       IN  IF video_info = None THEN pc' = "exit 1" /\ UNCHANGED db
           ELSE IF ~arg.skip_analysis /\ ~usable(video_info[1], files, now)
           THEN pc' = "exit 1" /\ UNCHANGED db
           ELSE pc' = "loop" /\ db' = Locals(video_info, 0)
    /\ op' = "select"
    /\ UNCHANGED <<now, files, sent>>
    /\ CompareIdle

\* main without a video id: select_video_interactive lists the records and
\* asks for an id when at least one is active
ListVideos ==
    /\ pc = "start"
    /\ arg.video_source = None
    /\ LET videos == list_videos(store)
           active_videos == SelectSeq(videos, LAMBDA video : usable(video, files, now))
       IN  IF arg.skip_analysis \/ videos = << >> \/ active_videos = << >>
           THEN pc' = "exit 1"
           ELSE pc' = "input"
    /\ op' = "list"
    /\ UNCHANGED <<now, files, sent, db>>
    /\ CompareIdle

\* one turn of the input loop of select_video_interactive
ChooseVideo ==
    /\ pc = "input"
    /\ \E video_id \in Ids(store) :
         LET video == get_video(store, video_id)
         IN  IF video = None \/ ~usable(video[1], files, now)
             THEN UNCHANGED <<pc, db>>
             ELSE pc' = "loop" /\ db' = Locals(video, 0)
    /\ op' = "choose"
    /\ UNCHANGED <<now, files, sent>>
    /\ CompareIdle

\* one turn of the loop over the prompts: client.models.generate_content
\* with the record's file_name, or the saved results with --skip-analysis.
\* The request is kept with what the checks would say when it is sent.
TestPrompt ==
    /\ pc = "loop"
    /\ db.done < Len(arg.prompts)
    /\ sent' = IF arg.skip_analysis THEN sent
               ELSE Append(sent, [gemini_file |-> db.video_info[1].file_name,
                                  prompt |-> arg.prompts[db.done + 1],
                                  expired |-> is_expired(db.video_info[1], now),
                                  exists |-> check_file_exists(db.video_info[1], files)])
    /\ db' = Locals(db.video_info, db.done + 1)
    /\ op' = "prompt"
    /\ UNCHANGED <<now, files, pc>>
    /\ CompareIdle

\* the summary after the last prompt
CompareDone ==
    /\ pc = "loop"
    /\ db.done = Len(arg.prompts)
    /\ pc' = "done"
    /\ op' = "summary"
    /\ UNCHANGED <<now, files, sent, db>>
    /\ CompareIdle

\* the clock goes on by an hour while the command runs
CompareTick ==
    /\ pc \in {"start", "input", "loop"}
    /\ now + 1 \in Instants
    /\ now' = now + 1
    /\ UNCHANGED <<op, files, sent, db, pc>>
    /\ CompareIdle

\* the collaborator removes a file while the command runs
FileRemoved ==
    /\ pc \in {"start", "input", "loop"}
    /\ \E n \in FileNames :
         /\ files[n] = "ACTIVE"
         /\ files' = [files EXCEPT ![n] = "NOT_FOUND"]
    /\ UNCHANGED <<op, now, sent, db, pc>>
    /\ CompareIdle

NextCompare ==
    \/ SelectById
    \/ ListVideos
    \/ ChooseVideo
    \/ TestPrompt
    \/ CompareDone
    \/ CompareTick
    \/ FileRemoved

SpecCompare == InitCompare /\ [][NextCompare]_vars

----------------------------------------------------------------------------
(* The two upload paths: upload_video of bin/manage_videos.py and          *)
(* VideoAnalyzer.analyze_video_segments of video_analysis/core.py          *)

\* analyze_video_segments(video_path, prompt): the upload, the polling, the
\* generate_content request with the file as it is after the polling, and
\* the parsing of the response; an exception of the upload or of a query
\* leaves the method
analyze_video_segments(prompt, remote, response_text) ==
    LET state == poll(remote.replies, 1)
    IN  IF state \in Raises
        THEN [requests |-> << >>, ret |-> RaisesError(state)]
        ELSE [requests |-> <<[file |-> remote.name, state |-> state, prompt |-> prompt]>>,
              ret |-> parse_response(response_text)]

\* the responses of the model to a request of analyze_video_segments
AnalyzeResponses ==
    {Response(r) : r \in [value : {JArray(<< >>), JArray(<<SegmentFull>>), JNull},
                          cut : {0}, fence : {"none", "json"}, space : {FALSE}]}

AnalyzeVideo ==
    /\ op = "init"
    /\ \E remote \in Remotes, response_text \in AnalyzeResponses :
         LET r == analyze_video_segments("DEFAULT_PROMPT", remote, response_text)
         IN  /\ sent' = sent \o r.requests
             /\ ret' = r.ret
             /\ arg' = [remote |-> remote, response_text |-> response_text]
    /\ op' = "analyze"
    /\ UNCHANGED <<store, now, edits, issued, old, saved, afterAdd, disk, db, pc, files>>

NextIngest ==
    \/ UploadVideo
    \/ AnalyzeVideo

SpecIngest == InitUpload /\ [][NextIngest]_vars

\* the state the polling of the last command ended with: the first answer
\* that is not PROCESSING
PolledState ==
    LET replies == arg.remote.replies
        ended == {i \in 1..Len(replies) : replies[i] # "PROCESSING"}
    IN  replies[CHOOSE i \in ended : \A j \in ended : i <= j]

\* C24: in both upload paths the polling goes on while the collaborator
\* answers PROCESSING, and the uploaded file is used (recorded in the ledger
\* or sent in a generation request) only if the polling ended with ACTIVE:
\* when it ended with another state, no record is added and no generation
\* request is made for the file.
C24_UsedOnlyWhenReady ==
    /\ op = "upload" =>
         /\ store # old => PolledState = "ACTIVE"
         /\ (arg.exists /\ PolledState # "ACTIVE") => (store = old /\ ~saved)
    /\ op = "analyze" =>
         /\ \A k \in 1..Len(sent) : sent[k].state = PolledState
         /\ sent # << >> => PolledState = "ACTIVE"
         /\ PolledState # "ACTIVE" => sent = << >>

----------------------------------------------------------------------------
(* The expiry of one record while the clock runs                           *)

\* the hours at which the record of the model is uploaded, and how long
\* the clock runs after the first of them
UploadHours == {0, 23, 30}
MaxHours == 82

\* is_expired(video) and get_time_until_expiry(video), read at the hour t
Reading(video, t) ==
    [expired |-> is_expired(video, t), until |-> get_time_until_expiry(video, t), at |-> t]

\* a ledger whose one record add_video stamped at the hour kept in arg
InitExpiry ==
    /\ \E u \in UploadHours, a \in AddArgs :
         /\ store = add_video(<< >>, a, u).videos
         /\ now = u
         /\ arg = u
    /\ edits = 0
    /\ issued = {1}
    /\ op = "init"
    /\ ret = None
    /\ old = << >>
    /\ saved = TRUE
    /\ afterAdd = FALSE
    /\ disk = dump(store)
    /\ db = << >>
    /\ pc = "idle"
    /\ files = [n \in FileNames |-> "ACTIVE"]
    /\ sent = << >>

ReadExpiry ==
    /\ op' = "expiry"
    /\ ret' = Reading(store[1], now)
    /\ UNCHANGED <<store, now, edits, issued, arg, old, saved, afterAdd, disk, db, pc,
                   files, sent>>

\* an hour passes
HourPasses ==
    /\ now < MaxHours
    /\ now' = now + 1
    /\ UNCHANGED <<store, edits, issued, op, arg, ret, old, saved, afterAdd, disk, db, pc,
                   files, sent>>

NextExpiry ==
    \/ ReadExpiry
    \/ HourPasses

SpecExpiry == InitExpiry /\ [][NextExpiry]_vars

\* C25: with time in whole hours, is_expired is true exactly when the clock
\* is later than uploaded_at + 48 hours (false at 48 hours exactly),
\* get_time_until_expiry is uploaded_at + 48 hours minus the clock, negative
\* exactly when is_expired is true at that hour, and a record read as
\* expired is read as expired at every later hour.
C25_Expiry ==
    /\ [](op = "expiry" =>
            /\ ret.expired = (ret.at > arg + 48)
            /\ ret.until = arg + 48 - ret.at
            /\ (ret.until < 0) = ret.expired)
    /\ [][(op = "expiry" /\ op' = "expiry" /\ ret.expired) => ret'.expired]_vars

\* the record read at 48 hours exactly after an upload at 23 o'clock: not
\* expired, no time left
C25_Witness ==
    /\ op = "expiry"
    /\ arg = 23
    /\ ret.at = 71
    /\ ~ret.expired
    /\ ret.until = 0

----------------------------------------------------------------------------
(* Two processes on one store file: each mutating call is _load_db and the *)
(* change in memory, then _save_db, and the steps of the two interleave    *)

Procs == {1, 2}
MaxCycles == 3

\* a step of a call as the log keeps it: the process, "load" or "save",
\* the call, the id it is about and the entry an add_video returns
Event(p, step, name, id, entry) ==
    [proc |-> p, step |-> step, name |-> name, id |-> id, entry |-> entry]

\* a call that applies its change to an empty document instead of the
\* loaded one
in_memory_Fresh(videos, name, a, t) ==
    IF name = "add" THEN add_video(<< >>, a, t).videos
    ELSE delete_video(<< >>, a).videos

\* the document a call holds after _load_db gave videos and the call
\* changed it in memory: add_video(a) or delete_video(a)
in_memory(videos, name, a, t) ==
    IF name = "add" THEN add_video(videos, a, t).videos
    ELSE delete_video(videos, a).videos

InitRace ==
    /\ store = << >>
    /\ now = 0
    /\ edits = 0
    /\ issued = {}
    /\ op = "init"
    /\ arg = [p \in Procs |-> None]
    /\ ret = << >>
    /\ old = << >>
    /\ saved = TRUE
    /\ afterAdd = FALSE
    /\ disk = dump(<< >>)
    /\ db = [p \in Procs |-> << >>]
    /\ pc = [p \in Procs |-> "idle"]
    /\ files = [n \in FileNames |-> "ACTIVE"]
    /\ sent = << >>

\* what the steps of the two processes leave alone
RaceIdle == UNCHANGED <<now, issued, old, saved, afterAdd, disk, files, sent>>

\* the process p starts a call: the file is read and changed in memory
Loaded(p, name, a, event) ==
    /\ pc[p] = "idle"
    /\ edits' = edits + 1
    /\ db' = [db EXCEPT ![p] = in_memory(store, name, a, now)]
    /\ pc' = [pc EXCEPT ![p] = "save"]
    /\ arg' = [arg EXCEPT ![p] = Some(event)]
    /\ ret' = Append(ret, event)
    /\ op' = "load"
    /\ UNCHANGED store
    /\ RaceIdle

LoadAdd ==
    /\ edits < MaxCycles
    /\ \E p \in Procs, a \in AddArgs :
         Loaded(p, "add", a,
                Event(p, "load", "add", video_entry(store, a, now).id,
                      Some(video_entry(store, a, now))))

LoadDelete ==
    /\ edits < MaxCycles
    /\ \E p \in Procs, video_id \in IdsOf(store) :
         Loaded(p, "delete", video_id, Event(p, "load", "delete", video_id, None))

\* _save_db of the process p: the file becomes the document p holds
Save ==
    /\ \E p \in Procs :
         /\ pc[p] = "save"
         /\ store' = db[p]
         /\ pc' = [pc EXCEPT ![p] = "idle"]
         /\ ret' = Append(ret, [arg[p][1] EXCEPT !.step = "save"])
    /\ op' = "save"
    /\ UNCHANGED <<edits, db, arg>>
    /\ RaceIdle

NextRace ==
    \/ LoadAdd
    \/ LoadDelete
    \/ Save

SpecRace == InitRace /\ [][NextRace]_vars

\* the calls of the log ran one at a time: each load is followed at once by
\* the save of the same call
OneAtATime(log) ==
    \A i \in 1..Len(log) :
        log[i].step = "load" =>
            \/ i = Len(log)
            \/ log[i + 1] = [log[i] EXCEPT !.step = "save"]

\* the completed call at place i of the log
Completed(log, i, name) == log[i].step = "save" /\ log[i].name = name

\* C26: when the calls ran one at a time, no completed change is lost: the
\* entry of every completed add_video is in the store unless a later
\* completed delete_video took its id, and no record of the store has the id
\* of a completed delete_video unless a later completed add_video returned
\* it. When the load-change-save cycles of two processes interleave, a
\* completed add_video can be lost from the store (the witness).
C26_NoLossOneAtATime ==
    OneAtATime(ret) =>
        /\ \A i \in 1..Len(ret) :
             Completed(ret, i, "add") =>
                 \/ ret[i].entry[1] \in Range(store)
                 \/ \E j \in (i + 1)..Len(ret) :
                        Completed(ret, j, "delete") /\ ret[j].id = ret[i].id
        /\ \A i \in 1..Len(ret) :
             Completed(ret, i, "delete") =>
                 \/ ret[i].id \notin IdsOf(store)
                 \/ \E j \in (i + 1)..Len(ret) :
                        Completed(ret, j, "add") /\ ret[j].id = ret[i].id

\* two add_video calls of two processes, both completed, no delete_video:
\* the entry the first returned is not in the store
C26_Witness ==
    /\ Len(ret) = 4
    /\ \A i \in 1..4 : ret[i].name = "add"
    /\ ret[1].proc # ret[2].proc
    /\ ret[3].step = "save" /\ ret[4].step = "save"
    /\ ret[3].entry[1] \notin Range(store)

----------------------------------------------------------------------------
(* The padding of extract_segment, on the segments of SpecSegment          *)

\* the seconds of a time text that time_to_seconds takes and that is a number
ValidTime(text) == time_to_seconds(text).ok /\ time_to_seconds(text).value.kind = "finite"

\* C27: for a segment of valid times and a padding p >= 0, the start offset
\* extract_segment passes to the transcoder is max(0, start - p), never
\* negative, and the duration it passes is (end + p) less that start offset:
\* the cut ends at end + p.
C27_PaddingClamp ==
    (/\ op = "extract_segment"
     /\ ValidTime(arg.segment.start_time)
     /\ ValidTime(arg.segment.end_time)) =>
        LET s == time_to_seconds(arg.segment.start_time).value
            e == time_to_seconds(arg.segment.end_time).value
            p == arg.padding_seconds
            ss == ret.cmd[1].ss
            t == ret.cmd[1].t
            lowered == s.num - p * s.den
        IN  /\ p >= 0
            /\ ss.kind = "finite" /\ t.kind = "finite"
            /\ ss.den > 0 /\ ss.num >= 0
            /\ ss.num * s.den = (IF lowered > 0 THEN lowered ELSE 0) * ss.den
            /\ t.num * e.den * ss.den = ((e.num + p * e.den) * ss.den - ss.num * e.den) * t.den
            /\ (ss.num * t.den + t.num * ss.den) * e.den = (e.num + p * e.den) * ss.den * t.den

\* a segment from 00:00 to 00:10 with a padding of 1: the cut starts at 0,
\* not at -1, and lasts 11 seconds
C27_Witness ==
    /\ op = "extract_segment"
    /\ arg.segment.start_time = Text0000
    /\ arg.segment.end_time = Text0010
    /\ arg.padding_seconds = 1
    /\ ret.cmd[1].ss.num = 0
    /\ ret.cmd[1].t.num = 11 * ret.cmd[1].t.den

----------------------------------------------------------------------------
(* The result of cleanup_expired against the store before and after it     *)

\* the ids of a list of records, in its order
IdList(videos) == [i \in 1..Len(videos) |-> videos[i].id]

\* C28: the result of cleanup_expired partitions the store it ran on: every
\* id of a record present before the call is in exactly one of deleted and
\* kept, deleted lists the ids of the records removed and kept the ids of
\* the records still in the store, both in store order, and when deleted is
\* empty the store file is not written.
C28_CleanupPartitions ==
    op = "cleanup" =>
        /\ \A id \in IdsOf(old) :
             (id \in Range(ret.deleted)) # (id \in Range(ret.kept))
        /\ Range(ret.deleted) \cup Range(ret.kept) \subseteq IdsOf(old)
        /\ ret.deleted = IdList(SelectSeq(old, LAMBDA v : v \notin Range(store)))
        /\ ret.kept = IdList(store)
        /\ IsSubseq(store, old)
        /\ ret.deleted = << >> => (~saved /\ store = old)


----------------------------------------------------------------------------
(* The calls of VideoDatabase that only read, and VideoDatabase(db_path)   *)
(* on a path where a store file may or may not be                          *)

\* the store file when the path does not exist
NoFile == << <<"no file">> >>

\* _ensure_db_exists: a missing file is created with {"videos": []}
ensure_db_exists(text) == IF text = NoFile THEN dump(<< >>) ELSE text

\* the documents earlier runs can have left: ledgers built by add_video, and
\* those with the first record deleted and one more added
Documents ==
    Ledgers(MaxLen) \cup
    {add_video(delete_video(videos, 1).videos, a, 0).videos :
         videos \in Ledgers(MaxLen) \ {<< >>}, a \in AddArgs}

\* the names get_video_by_name is called with
Names == {"a", "n1", "n2"}

InitRead ==
    /\ disk \in {NoFile} \cup {dump(videos) : videos \in Documents}
    /\ store = IF disk = NoFile THEN << >> ELSE load(disk)[1]
    /\ now \in Instants
    /\ edits = 0
    /\ issued = IdsOf(store)
    /\ op = "init"
    /\ arg = None
    /\ ret = None
    /\ old = store
    /\ saved = FALSE
    /\ afterAdd = FALSE
    /\ db = << >>
    /\ pc = "closed"
    /\ files \in Clients
    /\ sent = << >>

\* VideoDatabase(db_path): arg keeps the file as it was before
OpenLedger ==
    /\ disk' = ensure_db_exists(disk)
    /\ store' = load(disk')[1]
    /\ saved' = (disk = NoFile)
    /\ pc' = "idle"
    /\ op' = "open"
    /\ arg' = disk
    /\ ret' = None
    /\ old' = store
    /\ UNCHANGED <<now, edits, issued, afterAdd, db, files, sent>>

\* a call that reads: _load_db where the method has it, and no _save_db
Read(name, a, r) ==
    /\ pc = "idle"
    /\ op' = name
    /\ arg' = a
    /\ ret' = r
    /\ old' = store
    /\ saved' = FALSE
    /\ store' = load(disk)[1]
    /\ UNCHANGED <<disk, now, edits, issued, afterAdd, db, pc, files, sent>>

ReadGet ==
    /\ pc = "idle"
    /\ \E video_id \in Ids(store) :
         Read("get", video_id, get_video(load(disk)[1], video_id))

ReadGetByName ==
    /\ pc = "idle"
    /\ \E display_name \in Names :
         Read("get_by_name", display_name, get_video_by_name(load(disk)[1], display_name))

ReadList ==
    /\ pc = "idle"
    /\ Read("list", None, list_videos(load(disk)[1]))

\* get_expiry_time, is_expired, get_time_until_expiry and check_file_exists
\* on a record that list_videos gave
ReadRecord ==
    /\ pc = "idle"
    /\ \E i \in 1..Len(store) :
         \/ Read("expiry_time", store[i], get_expiry_time(store[i]))
         \/ Read("is_expired", store[i], is_expired(store[i], now))
         \/ Read("time_until_expiry", store[i], get_time_until_expiry(store[i], now))
         \/ Read("exists", store[i], check_file_exists(store[i], files))

NextRead ==
    \/ OpenLedger
    \/ ReadGet
    \/ ReadGetByName
    \/ ReadList
    \/ ReadRecord

SpecRead == InitRead /\ [][NextRead]_vars

\* the calls that only read
ReadOps == {"get", "get_by_name", "list", "expiry_time", "is_expired",
            "time_until_expiry", "exists"}

\* whether r is the first record of videos whose field key is value, or
\* None when there is no such record
FirstMatch(r, videos, key, value) ==
    IF r = None THEN \A i \in 1..Len(videos) : videos[i][key] # value
    ELSE \E i \in 1..Len(videos) :
            /\ videos[i] = r[1]
            /\ videos[i][key] = value
            /\ \A j \in 1..(i - 1) : videos[j][key] # value

\* C29: the calls that only read leave the persisted store as it was and do
\* not write it; get_video and get_video_by_name return the first record, in
\* insertion order, that matches; list_videos returns all records in
\* insertion order; opening a ledger on an existing store file does not
\* change the file, and on a missing one creates an empty store.
C29_ReadOnly ==
    /\ op \in ReadOps => (store = old /\ disk = dump(old) /\ ~saved)
    /\ op = "get" => FirstMatch(ret, old, "id", arg)
    /\ op = "get_by_name" => FirstMatch(ret, old, "display_name", arg)
    /\ op = "list" => ret = old
    /\ op = "open" =>
         IF arg = NoFile
         THEN disk = dump(<< >>) /\ store = << >>
         ELSE disk = arg /\ store = old /\ ~saved

\* get_video with an id that two records of the store have: the first one
C29_Witness ==
    /\ op = "get"
    /\ Len(store) = 2
    /\ store[1].id = arg /\ store[2].id = arg
    /\ store[1] # store[2]
    /\ ret = Some(store[1])

\* a ledger opened on a path without a file
C29_WitnessCreated ==
    /\ op = "open"
    /\ arg = NoFile
    /\ disk = dump(<< >>)

====
